---- MODULE Spec2Model ----
(***************************************************************************)
(* trak: the track lifecycle engine (internal/ops) over the registry       *)
(* (internal/db) and its collaborators git, devbox.                        *)
(*                                                                         *)
(* Strings the code computes with (branch names, SHAs, slugs, paths) are   *)
(* sequences of one-character strings, so that Slugify and GenerateSlug    *)
(* are computed as the code computes them.  A Go *string is None or        *)
(* Some(s).  Error texts are plain strings.                                *)
(***************************************************************************)
EXTENDS Integers, Sequences, FiniteSets, TLC

\* ------------------------------------------------------------------ bounds
\* How many names of BranchPool the callers use.
NumBranches == 2
\* The registry's rowid never exceeds MaxId (calls that would insert more are not made).
MaxId == 2
\* The clock of the registry-level specification runs from 0 to MaxTime.
MaxTime == 1
\* the most windows session "trak" has when a call begins, and the most commands
\* a window has been sent then
MaxWindows == 3
MaxKeys == 2
\* the most rows a list the front end has loaded has, the most commands it has in
\* flight when a key is pressed, and the most characters typed into its text input
MaxRows == 2
MaxInFlight == 2
MaxInput == 1

\* ----------------------------------------------------------------- strings
None == <<>>
Some(s) == <<s>>

UpperCase == <<"A","B","C","D","E","F","G","H","I","J","K","L","M",
               "N","O","P","Q","R","S","T","U","V","W","X","Y","Z">>
LowerCase == <<"a","b","c","d","e","f","g","h","i","j","k","l","m",
               "n","o","p","q","r","s","t","u","v","w","x","y","z">>
Digits == {"0","1","2","3","4","5","6","7","8","9"}

Range(s) == {s[i] : i \in DOMAIN s}

\* strings.ToLower on one character
ToLowerChar(c) ==
    IF \E i \in DOMAIN UpperCase : UpperCase[i] = c
    THEN LowerCase[CHOOSE i \in DOMAIN UpperCase : UpperCase[i] = c]
    ELSE c

ToLower(s) == [i \in DOMAIN s |-> ToLowerChar(s[i])]

\* the six strings.ReplaceAll calls of Slugify
Separators == {"/", "_", " ", ".", "@", "#"}
ReplaceSeparators(s) == [i \in DOMAIN s |-> IF s[i] \in Separators THEN "-" ELSE s[i]]

\* nonAlphanumericRegex `[^a-zA-Z0-9-]+` matches what is not one of these
SlugChars == Range(LowerCase) \cup Range(UpperCase) \cup Digits \cup {"-"}
IsSlugChar(c) == c \in SlugChars
RemoveNonAlphanumeric(s) == SelectSeq(s, IsSlugChar)

\* multipleHyphensRegex `-+` replaced by "-"
RECURSIVE CollapseHyphens(_)
CollapseHyphens(s) ==
    IF Len(s) < 2 THEN s
    ELSE IF s[1] = "-" /\ s[2] = "-" THEN CollapseHyphens(Tail(s))
    ELSE <<s[1]>> \o CollapseHyphens(Tail(s))

\* strings.Trim(slug, "-")
RECURSIVE TrimHyphens(_)
TrimHyphens(s) ==
    IF s = <<>> THEN s
    ELSE IF s[1] = "-" THEN TrimHyphens(Tail(s))
    ELSE IF s[Len(s)] = "-" THEN TrimHyphens(SubSeq(s, 1, Len(s) - 1))
    ELSE s

Slugify(branch) ==
    TrimHyphens(CollapseHyphens(RemoveNonAlphanumeric(ReplaceSeparators(ToLower(branch)))))

\* length of a short SHA
ShortSHALen == 7

GenerateSlug(branch, sha) ==
    LET slug == Slugify(branch)
        shortSHA == IF Len(sha) > ShortSHALen THEN SubSeq(sha, 1, ShortSHALen) ELSE sha
    IN  IF shortSHA = <<>> THEN slug ELSE slug \o <<"-">> \o shortSHA

\* config.GetWorktreeBaseDir(): $HOME/worktrees, one path element here
WorktreeBaseDir == <<"~">>

\* filepath.Join(worktreeBase, slug): Join drops an empty element
WorktreePath(slug) == IF slug = <<>> THEN WorktreeBaseDir ELSE WorktreeBaseDir \o <<"/">> \o slug

\* --------------------------------------------------------------- the world
BranchPool == << <<"a","/","b">>, <<"a","_","b">>, <<"c">>, <<"A",".","b">> >>
Branches == {BranchPool[i] : i \in 1..NumBranches}

\* o.config.Repo.Remote, and a second remote the registry can hold rows of
ConfigRemote == "owner/repo"
Remotes == {ConfigRemote, "other/repo"}

SHA1 == <<"1","1","1","1","1","1","1","a">>
SHA2 == <<"2","2","2","2","2","2","2","b">>
SHAs == {SHA1, SHA2}
\* git rev-parse of a ref that does not exist
NoSHA == <<>>
\* NewTrackDevbox's sha when origin/<branch> does not resolve
UnknownSHA == <<"u","n","k","n","o","w","n">>

TrackTypeWorktree == "worktree"
TrackTypeDevbox == "devbox"
TrackTypes == {TrackTypeWorktree, TrackTypeDevbox}

\* ---------------------------------------------------------------- registry
\* A row of table tracks: [id, branch, remote_url, head_sha, type, path,
\* devbox_name, created_at, last_accessed]; path, devbox_name, created_at (None:
\* the zero time) and last_accessed are None or Some(value).
Track(branch, remote, sha, type, path, devboxName, createdAt, lastAccessed) ==
    [id |-> 0, branch |-> branch, remote_url |-> remote, head_sha |-> sha, type |-> type,
     path |-> path, devbox_name |-> devboxName, created_at |-> createdAt,
     last_accessed |-> lastAccessed]

RowsOf(rows, remote, branch) == {r \in rows : r.remote_url = remote /\ r.branch = branch}

\* variant: a table without the UNIQUE(remote_url, branch) constraint
NoUniqueViolation(rows, t) == FALSE

\* UNIQUE(remote_url, branch)
UniqueViolation(rows, t) == RowsOf(rows, t.remote_url, t.branch) # {}

\* CHECK (type IN ('worktree', 'devbox'))
CheckViolation(t) == t.type \notin TrackTypes

\* id INTEGER PRIMARY KEY: one more than the largest rowid in the table
NextRowID(rows) ==
    IF rows = {} THEN 1 ELSE (CHOOSE m \in {r.id : r \in rows} : \A r \in rows : r.id <= m) + 1

\* variant: an INSERT that only the CHECK constraint can reject
RejectedByCheckOnly(rows, t) == CheckViolation(t)

\* DB.InsertTrack: whether the INSERT is rejected, and the table after an accepted one
DB_InsertTrackRejected(rows, t) == UniqueViolation(rows, t) \/ CheckViolation(t)
DB_InsertTrack(rows, t, clock) ==
    rows \cup {[t EXCEPT !.id = NextRowID(rows),
                         !.created_at = IF t.created_at = None THEN Some(clock) ELSE t.created_at]}

\* DB.UpdateTrack: "track not found" when no row matches; the CHECK applies to the new type
DB_UpdateTrackRejected(rows, t) == RowsOf(rows, t.remote_url, t.branch) = {} \/ CheckViolation(t)
DB_UpdateTrack(rows, t) ==
    {IF r \in RowsOf(rows, t.remote_url, t.branch)
     THEN [r EXCEPT !.head_sha = t.head_sha, !.type = t.type, !.path = t.path,
                    !.devbox_name = t.devbox_name, !.last_accessed = t.last_accessed]
     ELSE r : r \in rows}

\* variant: a DELETE that reports success and leaves the table as it was
DeleteNothing(rows, remote, branch) == rows

\* DB.DeleteTrack: "track not found" when no row matches
DB_DeleteTrackRejected(rows, remote, branch) == RowsOf(rows, remote, branch) = {}
DB_DeleteTrack(rows, remote, branch) == rows \ RowsOf(rows, remote, branch)

\* DB.GetTrack: the first matching row, or nil
DB_GetTrack(rows, remote, branch) ==
    IF RowsOf(rows, remote, branch) = {} THEN None
    ELSE Some(CHOOSE r \in RowsOf(rows, remote, branch) : TRUE)

\* DB.UpdateLastAccessed
DB_UpdateLastAccessedRejected(rows, remote, branch) == RowsOf(rows, remote, branch) = {}
DB_UpdateLastAccessed(rows, remote, branch, clock) ==
    {IF r \in RowsOf(rows, remote, branch) THEN [r EXCEPT !.last_accessed = Some(clock)] ELSE r
     : r \in rows}

\* variant: an UPDATE of head_sha without the remote_url in its WHERE clause
UpdateHeadSHAOfBranch(rows, remote, branch, sha) ==
    {IF r.branch = branch THEN [r EXCEPT !.head_sha = sha] ELSE r : r \in rows}

\* variant: an UPDATE of head_sha that reports success and writes nothing
UpdateHeadSHANothing(rows, remote, branch, sha) == rows

\* DB.UpdateHeadSHA
DB_UpdateHeadSHARejected(rows, remote, branch) == RowsOf(rows, remote, branch) = {}
DB_UpdateHeadSHA(rows, remote, branch, sha) ==
    {IF r \in RowsOf(rows, remote, branch) THEN [r EXCEPT !.head_sha = sha] ELSE r : r \in rows}

\* ----------------------------------------------------------- collaborators
\* `git worktree add <path> <branch>` refuses a path that exists and a branch that
\* is checked out in another worktree.
WorktreeAddPossible(wts, path, branch) == \A w \in wts : w.path # path /\ w.branch # branch
WorktreeAdd(wts, path, branch) == wts \cup {[path |-> path, branch |-> branch]}

\* `git worktree remove <path>` fails on a path that is no working tree.
WorktreeRemovePossible(wts, path) == \E w \in wts : w.path = path
WorktreeRemove(wts, path) == {w \in wts : w.path # path}

\* `git branch <name> <base>` fails when <name> exists or <base> does not resolve.
CreateBranchPossible(local, branch, baseSHA) == local[branch] = NoSHA /\ baseSHA # NoSHA
CreateBranch(local, branch, baseSHA) == [local EXCEPT ![branch] = baseSHA]

\* `git push origin --delete <branch>` fails when origin has no such branch.
PushDeletePossible(origin, branch) == origin[branch] # NoSHA
PushDelete(origin, branch) == [origin EXCEPT ![branch] = NoSHA]

\* variant: a devbox deletion that reports success and deletes nothing
DevboxDeleteNothing(dbs, name) == dbs

\* variant: no devbox is ever found by name
NoDevboxFound(dbs, name) == FALSE

\* variant: a create that succeeds on a name in use
CreateOverExisting(dbs, name) == TRUE

\* devbox names are unique (Exists searches List by name): create of a name in use
\* fails; delete of a name not in use fails ("devbox not found").
DevboxExists(dbs, name) == \E d \in dbs : d.name = name
DevboxCreatePossible(dbs, name) == ~DevboxExists(dbs, name)
DevboxCreate(dbs, name, branch) == dbs \cup {[name |-> name, branch |-> branch]}
DevboxDeletePossible(dbs, name) == DevboxExists(dbs, name)
DevboxDelete(dbs, name) == {d \in dbs : d.name # name}

\* The results a collaborator call can have: it can always fail (the process exits
\* non-zero for a reason of its own), and succeed only when `possible`.
Outcomes(possible) == IF possible THEN {TRUE, FALSE} ELSE {FALSE}

\* -------------------------------------------------------------------- state
VARIABLES
    tracks,        \* the rows of table tracks
    worktrees,     \* the git worktrees that exist: [path, branch]
    devboxes,      \* the devboxes that exist: [name, branch]
    localBranch,   \* refs/heads/<b>: its SHA, or NoSHA
    originBranch,  \* refs/remotes/origin/<b>: its SHA, or NoSHA
    proc,          \* each caller's position in its engine call, and the call's locals
    unpersisted,   \* history: branches whose last DeleteTrack failed to remove the row
                   \* after its deprovision, the row not having been removed since
    halfDone,      \* history: some call's cleanup failed, or some row removal failed after
                   \* its deprovision
    now,           \* the clock time.Now() reads
    prs,           \* the pull request of each branch on the code review host: its
                   \* number, or NoPR
    rebaseHead,    \* the HEAD of the worktree of each branch while a rebase is stopped
                   \* in it on a conflict, or NoSHA
    ui,            \* the interactive front end: its Model (m), the commands it has issued
                   \* that have not delivered their message yet (running), and whether
                   \* the program has ended
    tmux           \* the terminal multiplexer: whether session "trak" exists, its windows
                   \* in order ([name, dir, keys]: the name, the start directory and the
                   \* commands sent to it), the session's current window and the window
                   \* the caller's client shows (0: none), and whether the caller runs
                   \* inside tmux ($TMUX)

vars == <<tracks, worktrees, devboxes, localBranch, originBranch, proc, unpersisted, halfDone, now,
         prs, rebaseHead, tmux, ui>>

\* no pull request: gh pr view finds none
NoPR == 0

\* tmux with no server running, called from outside tmux
NoTmux == [session |-> FALSE, windows |-> <<>>, current |-> 0, client |-> 0, inside |-> FALSE]

\* origin/<default branch> resolves to this commit
DefaultTip == SHA1

\* error values: nil, or the message of the fmt.Errorf that built it and the locators
\* its text names
NoErr == [msg |-> "", names |-> {}]
Err(msg, names) == [msg |-> msg, names |-> names]

\* The callers: one in the sequential specification, both in the race.
Procs == {1, 2}
MainProc == 1

\* A caller's record: pc, the call (op, branch, deleteRemote), the handler's locals
\* (branchExists, remoteBranchExists, sha, locator: worktreePath or devboxName, trk),
\* the error returned, and history: the log of the calls made, fault (some call
\* failed that could have succeeded), rows0 (the table when the call began), retry
\* (the call is a DeleteTrack of a branch in unpersisted); conflicts is SyncTrack's
\* local, result the value returned beside the error (nil: None), todo the tracks
\* ListTracksWithStatus has still to refresh and entries the ones it has; tmux0 and
\* time0 are history, the multiplexer and the clock when JumpToTrack or RunAI began.
IdleProc ==
    [pc |-> "idle", op |-> "none", branch |-> <<>>, deleteRemote |-> FALSE,
     branchExists |-> FALSE, remoteBranchExists |-> FALSE, sha |-> NoSHA,
     locator |-> <<>>, trk |-> None, err |-> NoErr, log |-> <<>>, fault |-> FALSE,
     rows0 |-> {}, retry |-> FALSE, conflicts |-> FALSE, result |-> None,
     todo |-> <<>>, entries |-> <<>>, tmux0 |-> NoTmux, time0 |-> 0]

\* one entry of a call's log of collaborator and registry calls
Called(call, arg, ok) == [call |-> call, arg |-> arg, ok |-> ok]

\* proc after process p made `call`, which could succeed iff `possible` and did iff `ok`
Logged(p, call, arg, possible, ok) ==
    [proc[p] EXCEPT !.log = Append(@, Called(call, arg, ok)),
                    !.fault = @ \/ (possible /\ ~ok)]

\* the call of p returns err
Returned(rec, err) == [rec EXCEPT !.pc = "done", !.err = err]

\* ------------------------------------------------------- the front end (tui)
\* The bubbletea Model, without what only View reads (notification, notifyTime,
\* width, height, spinner): err is m.err != nil, tracks and remoteBranches are the
\* lengths of the lists, cursor and remoteCursor the cursors of the two tables,
\* input the value of textInput.
ViewMain == "ViewMain"
ViewRemoteBrowser == "ViewRemoteBrowser"
ViewNewTrack == "ViewNewTrack"

\* a tea.Cmd that is running: the function and the row it was issued for
Cmd(name, arg) == [name |-> name, arg |-> arg]

\* New(o, repoName)
New ==
    [view |-> ViewMain, loading |-> TRUE, quitting |-> FALSE, showAll |-> FALSE, err |-> FALSE,
     tracks |-> 0, remoteBranches |-> 0, cursor |-> 0, remoteCursor |-> 0, input |-> <<>>]

\* the program when Run has called Init: m.loadTracks is running (with spinner.Tick)
UiAtStart == [m |-> New, running |-> <<Cmd("loadTracks", 0)>>, ended |-> FALSE]

\* the keys of DefaultKeyMap (one of each binding), and two keys it does not bind
Keys == {"q", "?", "esc", "r", "b", "n", "enter", "s", "d", "a", "j", "k", "x", " "}

\* the messages
KeyMsg(k) == [type |-> "KeyMsg", key |-> k, n |-> 0, isError |-> FALSE]
TracksLoadedMsg(n) == [type |-> "tracksLoadedMsg", key |-> "", n |-> n, isError |-> FALSE]
RemoteBranchesLoadedMsg(n) ==
    [type |-> "remoteBranchesLoadedMsg", key |-> "", n |-> n, isError |-> FALSE]
OperationCompleteMsg(isError) ==
    [type |-> "operationCompleteMsg", key |-> "", n |-> 0, isError |-> isError]
ErrMsg == [type |-> "errMsg", key |-> "", n |-> 0, isError |-> TRUE]
WindowSizeMsg == [type |-> "tea.WindowSizeMsg", key |-> "", n |-> 0, isError |-> FALSE]

\* strings.TrimSpace
RECURSIVE TrimSpace(_)
TrimSpace(str) ==
    IF str = <<>> THEN str
    ELSE IF Head(str) = " " THEN TrimSpace(Tail(str))
    ELSE IF str[Len(str)] = " " THEN TrimSpace(SubSeq(str, 1, Len(str) - 1))
    ELSE str

\* table.Update of a table of n rows that shows them all: j and k move the cursor
\* by one, b (page up) to the first row, d and space (half page and page down) to
\* the last; a message that is no key leaves it
TableUpdate(cursor, n, msg) ==
    IF msg.type # "KeyMsg" \/ n = 0 THEN cursor
    ELSE IF msg.key = "j" THEN (IF cursor < n - 1 THEN cursor + 1 ELSE cursor)
    ELSE IF msg.key = "k" THEN (IF cursor > 0 THEN cursor - 1 ELSE cursor)
    ELSE IF msg.key = "b" THEN 0
    ELSE IF msg.key \in {"d", " "} THEN n - 1
    ELSE cursor

\* textinput.Update of the focused input: a key of one character is appended
TextInputUpdate(input, msg) ==
    IF msg.type = "KeyMsg" /\ msg.key \notin {"esc", "enter"} THEN Append(input, msg.key)
    ELSE input

\* the end of Update, `switch m.view`: the message goes to the component shown
ComponentUpdate(m, msg) ==
    IF m.view = ViewMain THEN [m EXCEPT !.cursor = TableUpdate(m.cursor, m.tracks, msg)]
    ELSE IF m.view = ViewRemoteBrowser
         THEN [m EXCEPT !.remoteCursor = TableUpdate(m.remoteCursor, m.remoteBranches, msg)]
    ELSE [m EXCEPT !.input = TextInputUpdate(m.input, msg)]

\* what Update returns: the model and the commands to run
Updated(m, cmds) == [m |-> m, cmds |-> cmds]

\* Update, case tea.KeyMsg
UpdateKey(m, msg) ==
    LET k == msg.key
        onTrack == m.view = ViewMain /\ m.tracks > 0 /\ m.cursor < m.tracks
    IN  IF k = "q" THEN Updated([m EXCEPT !.quitting = TRUE], <<Cmd("tea.Quit", 0)>>)
        ELSE IF k = "?" THEN Updated([m EXCEPT !.showAll = ~@], <<>>)
        ELSE IF k = "esc" /\ m.view \in {ViewRemoteBrowser, ViewNewTrack}
             THEN Updated([m EXCEPT !.view = ViewMain], <<>>)
        ELSE IF k = "r"
             THEN Updated([m EXCEPT !.loading = TRUE],
                          IF m.view = ViewRemoteBrowser THEN <<Cmd("loadRemoteBranches", 0)>>
                          ELSE <<Cmd("loadTracks", 0)>>)
        ELSE IF k = "b" /\ m.view = ViewMain
             THEN Updated([m EXCEPT !.view = ViewRemoteBrowser, !.loading = TRUE],
                          <<Cmd("loadRemoteBranches", 0)>>)
        ELSE IF k = "n" /\ m.view = ViewMain
             THEN Updated([m EXCEPT !.view = ViewNewTrack, !.input = <<>>], <<>>)
        ELSE IF k = "enter" /\ m.view = ViewNewTrack
             THEN IF TrimSpace(m.input) # <<>>
                  THEN Updated([m EXCEPT !.view = ViewMain, !.loading = TRUE],
                               <<Cmd("createTrackFromRemote", 0)>>)
                  ELSE Updated(m, <<>>)
        ELSE IF k = "enter" /\ onTrack
             THEN Updated([m EXCEPT !.quitting = TRUE], <<Cmd("jumpToTrack", m.cursor)>>)
        ELSE IF /\ k = "enter"
                /\ m.view = ViewRemoteBrowser
                /\ m.remoteBranches > 0
                /\ m.remoteCursor < m.remoteBranches
             THEN Updated([m EXCEPT !.loading = TRUE], <<Cmd("createTrackFromRemote", m.remoteCursor)>>)
        ELSE IF k = "s" /\ onTrack
             THEN Updated([m EXCEPT !.loading = TRUE], <<Cmd("syncTrack", m.cursor)>>)
        ELSE IF k = "d" /\ onTrack
             THEN Updated([m EXCEPT !.loading = TRUE], <<Cmd("deleteTrack", m.cursor)>>)
        ELSE IF k = "a" /\ onTrack
             THEN Updated([m EXCEPT !.quitting = TRUE], <<Cmd("runAI", m.cursor)>>)
        ELSE Updated(ComponentUpdate(m, msg), <<>>)

\* Model.Update; the tables are built anew with the lists, the cursor on the first row
Update(m, msg) ==
    IF msg.type = "KeyMsg" THEN UpdateKey(m, msg)
    ELSE IF msg.type = "tea.WindowSizeMsg"
         THEN Updated([m EXCEPT !.cursor = 0, !.remoteCursor = 0], <<>>)
    ELSE IF msg.type = "tracksLoadedMsg"
         THEN Updated([m EXCEPT !.loading = FALSE, !.tracks = msg.n, !.cursor = 0], <<>>)
    ELSE IF msg.type = "remoteBranchesLoadedMsg"
         THEN Updated([m EXCEPT !.loading = FALSE, !.remoteBranches = msg.n, !.remoteCursor = 0], <<>>)
    ELSE IF msg.type = "operationCompleteMsg"
         THEN IF msg.isError THEN Updated([m EXCEPT !.loading = FALSE, !.err = TRUE], <<>>)
              ELSE Updated([m EXCEPT !.loading = FALSE, !.err = FALSE, !.view = ViewMain],
                           <<Cmd("loadTracks", 0)>>)
    ELSE Updated([m EXCEPT !.loading = FALSE, !.err = TRUE], <<>>)

\* the messages a running command can return
MsgsOf(cmd) ==
    IF cmd.name = "loadTracks" THEN {TracksLoadedMsg(n) : n \in 0..MaxRows} \cup {ErrMsg}
    ELSE IF cmd.name = "loadRemoteBranches"
         THEN {RemoteBranchesLoadedMsg(n) : n \in 0..MaxRows} \cup {ErrMsg}
    ELSE {OperationCompleteMsg(isError) : isError \in BOOLEAN}

\* tea.Sequence(cmd, tea.Quit): tea.Quit runs when cmd has returned its message
SequencedQuit(cmd) ==
    IF cmd.name \in {"jumpToTrack", "runAI"} THEN <<Cmd("tea.Quit", 0)>> ELSE <<>>

\* origin at the start: the first branch of the pool has been pushed, the others not
OriginAtStart == [b \in Branches |-> IF b = BranchPool[1] THEN SHA2 ELSE NoSHA]

\* variant: the insert is attempted whatever the creation returned
InsertRegardless(ok, insertPc) == insertPc

\* variant: a failed insert returns without the cleanup
NoCleanupAfterInsert(ok, cleanupPc) == "done"

\* where a NewTrack function goes after its environment was created or not
NewTrackAfterProvision(ok, insertPc) == IF ok THEN insertPc ELSE "done"

\* where a NewTrack function goes after InsertTrack returned
NewTrackAfterInsert(ok, cleanupPc) == IF ok THEN "done" ELSE cleanupPc

Init ==
    /\ tracks = {}
    /\ worktrees = {}
    /\ devboxes = {}
    /\ localBranch = [b \in Branches |-> NoSHA]
    /\ originBranch = OriginAtStart
    /\ proc = [p \in Procs |-> IdleProc]
    /\ unpersisted = {}
    /\ halfDone = FALSE
    /\ ui = UiAtStart
    /\ now = 0
    /\ prs = [b \in Branches |-> NoPR]
    /\ rebaseHead = [b \in Branches |-> NoSHA]
    /\ tmux = NoTmux

\* ------------------------------------------------------- Ops.NewTrackDevbox
StartNewTrackDevbox(b, rows) ==
    [IdleProc EXCEPT !.pc = "dbx_exists", !.op = "NewTrackDevbox", !.branch = b,
                     !.locator = Slugify(b), !.rows0 = rows]

CallNewTrackDevbox(p, b) ==
    /\ proc[p].pc = "idle"
    /\ NextRowID(tracks) <= MaxId
    /\ proc' = [proc EXCEPT ![p] = StartNewTrackDevbox(b, tracks)]
    /\ UNCHANGED <<ui, tracks, worktrees, devboxes, localBranch, originBranch, unpersisted, halfDone, now, prs, rebaseHead, tmux>>

\* devbox.Exists(devboxName)
DbxExists(p) ==
    /\ proc[p].pc = "dbx_exists"
    /\ \E ok \in Outcomes(TRUE) :
        LET rec == Logged(p, "devbox.Exists", proc[p].locator, TRUE, ok)
        IN  proc' = [proc EXCEPT ![p] =
                IF ~ok THEN Returned(rec, Err("failed to check if devbox exists", {}))
                ELSE IF DevboxExists(devboxes, proc[p].locator)
                     THEN Returned(rec, Err("devbox already exists", {proc[p].locator}))
                ELSE [rec EXCEPT !.pc = "dbx_create"]]
    /\ UNCHANGED <<ui, tracks, worktrees, devboxes, localBranch, originBranch, unpersisted, halfDone, now, prs, rebaseHead, tmux>>

\* devbox.Create(devboxName, repoURL, branch)
DbxCreate(p) ==
    /\ proc[p].pc = "dbx_create"
    /\ LET name == proc[p].locator
           possible == DevboxCreatePossible(devboxes, name)
       IN \E ok \in Outcomes(possible) :
            LET rec == Logged(p, "devbox.Create", name, possible, ok)
                next == NewTrackAfterProvision(ok, "dbx_fetch")
            IN  /\ proc' = [proc EXCEPT ![p] =
                        IF next = "done" THEN Returned(rec, Err("failed to create devbox", {name}))
                        ELSE [rec EXCEPT !.pc = next]]
                /\ devboxes' = IF ok THEN DevboxCreate(devboxes, name, proc[p].branch) ELSE devboxes
    /\ UNCHANGED <<ui, tracks, worktrees, localBranch, originBranch, unpersisted, halfDone, now, prs, rebaseHead, tmux>>

\* git.Fetch(repoPath): a failure is not fatal here
DbxFetch(p) ==
    /\ proc[p].pc = "dbx_fetch"
    /\ \E ok \in Outcomes(TRUE) :
        proc' = [proc EXCEPT ![p] = [Logged(p, "git.Fetch", <<>>, TRUE, ok) EXCEPT !.pc = "dbx_sha"]]
    /\ UNCHANGED <<ui, tracks, worktrees, devboxes, localBranch, originBranch, unpersisted, halfDone, now, prs, rebaseHead, tmux>>

\* sha, _ := git.GetBranchSHA(repoPath, "origin/"+branch); "unknown" when empty
DbxGetBranchSHA(p) ==
    /\ proc[p].pc = "dbx_sha"
    /\ LET possible == originBranch[proc[p].branch] # NoSHA
       IN \E ok \in Outcomes(possible) :
            proc' = [proc EXCEPT ![p] =
                [Logged(p, "git.GetBranchSHA", proc[p].branch, possible, ok) EXCEPT
                    !.pc = "dbx_insert",
                    !.sha = IF ok THEN originBranch[proc[p].branch] ELSE UnknownSHA]]
    /\ UNCHANGED <<ui, tracks, worktrees, devboxes, localBranch, originBranch, unpersisted, halfDone, now, prs, rebaseHead, tmux>>

\* the error both NewTrack functions return when InsertTrack failed, whatever the
\* cleanup call returned (its result is assigned to _)
RecordFailedErr(locator, cleanupOK) == Err("failed to record track in database", {})

\* o.db.InsertTrack(trackRecord)
DbxInsertTrack(p) ==
    /\ proc[p].pc = "dbx_insert"
    /\ LET t == Track(proc[p].branch, ConfigRemote, proc[p].sha, TrackTypeDevbox,
                      None, Some(proc[p].locator), Some(now), Some(now))
           possible == ~DB_InsertTrackRejected(tracks, t)
       IN \E ok \in Outcomes(possible) :
            LET rec == Logged(p, "db.InsertTrack", proc[p].branch, possible, ok)
                next == NewTrackAfterInsert(ok, "dbx_cleanup")
            IN  /\ proc' = [proc EXCEPT ![p] =
                        IF next = "done"
                        THEN Returned(rec, IF ok THEN NoErr ELSE RecordFailedErr(proc[p].locator, FALSE))
                        ELSE [rec EXCEPT !.pc = next]]
                /\ tracks' = IF ok THEN DB_InsertTrack(tracks, t, now) ELSE tracks
    /\ UNCHANGED <<ui, worktrees, devboxes, localBranch, originBranch, unpersisted, halfDone, now, prs, rebaseHead, tmux>>

\* _ = devbox.Delete(devboxName), then the error is returned
DbxCleanup(p) ==
    /\ proc[p].pc = "dbx_cleanup"
    /\ LET name == proc[p].locator
           possible == DevboxDeletePossible(devboxes, name)
       IN \E ok \in Outcomes(possible) :
            /\ proc' = [proc EXCEPT ![p] =
                    Returned(Logged(p, "devbox.Delete", name, possible, ok), RecordFailedErr(name, ok))]
            /\ devboxes' = IF ok THEN DevboxDelete(devboxes, name) ELSE devboxes
            /\ halfDone' = (halfDone \/ ~ok)
    /\ UNCHANGED <<ui, tracks, worktrees, localBranch, originBranch, unpersisted, now, prs, rebaseHead, tmux>>

\* ----------------------------------------------------- Ops.NewTrackWorktree
StartNewTrackWorktree(b, rows) ==
    [IdleProc EXCEPT !.pc = "wt_fetch", !.op = "NewTrackWorktree", !.branch = b, !.rows0 = rows]

CallNewTrackWorktree(p, b) ==
    /\ proc[p].pc = "idle"
    /\ NextRowID(tracks) <= MaxId
    /\ proc' = [proc EXCEPT ![p] = StartNewTrackWorktree(b, tracks)]
    /\ UNCHANGED <<ui, tracks, worktrees, devboxes, localBranch, originBranch, unpersisted, halfDone, now, prs, rebaseHead, tmux>>

\* git.Fetch(repoPath)
WtFetch(p) ==
    /\ proc[p].pc = "wt_fetch"
    /\ \E ok \in Outcomes(TRUE) :
        LET rec == Logged(p, "git.Fetch", <<>>, TRUE, ok)
        IN  proc' = [proc EXCEPT ![p] =
                IF ok THEN [rec EXCEPT !.pc = "wt_default"]
                ELSE Returned(rec, Err("failed to fetch from remote", {}))]
    /\ UNCHANGED <<ui, tracks, worktrees, devboxes, localBranch, originBranch, unpersisted, halfDone, now, prs, rebaseHead, tmux>>

\* git.GetDefaultBranch(repoPath)
WtGetDefaultBranch(p) ==
    /\ proc[p].pc = "wt_default"
    /\ \E ok \in Outcomes(TRUE) :
        LET rec == Logged(p, "git.GetDefaultBranch", <<>>, TRUE, ok)
        IN  proc' = [proc EXCEPT ![p] =
                IF ok THEN [rec EXCEPT !.pc = "wt_local"]
                ELSE Returned(rec, Err("failed to get default branch", {}))]
    /\ UNCHANGED <<ui, tracks, worktrees, devboxes, localBranch, originBranch, unpersisted, halfDone, now, prs, rebaseHead, tmux>>

\* _, err = git.GetBranchSHA(repoPath, branch); branchExists := err == nil
WtCheckLocal(p) ==
    /\ proc[p].pc = "wt_local"
    /\ LET possible == localBranch[proc[p].branch] # NoSHA
       IN \E ok \in Outcomes(possible) :
            proc' = [proc EXCEPT ![p] =
                [Logged(p, "git.GetBranchSHA", proc[p].branch, possible, ok) EXCEPT
                    !.pc = "wt_remote", !.branchExists = ok]]
    /\ UNCHANGED <<ui, tracks, worktrees, devboxes, localBranch, originBranch, unpersisted, halfDone, now, prs, rebaseHead, tmux>>

\* _, remoteErr := git.GetBranchSHA(repoPath, "origin/"+branch), then the branch
\* `if !branchExists` takes
WtCheckRemote(p) ==
    /\ proc[p].pc = "wt_remote"
    /\ LET possible == originBranch[proc[p].branch] # NoSHA
       IN \E ok \in Outcomes(possible) :
            proc' = [proc EXCEPT ![p] =
                [Logged(p, "git.GetBranchSHA", <<"origin", "/">> \o proc[p].branch, possible, ok) EXCEPT
                    !.pc = IF proc[p].branchExists THEN "wt_sha" ELSE "wt_branch",
                    !.remoteBranchExists = ok]]
    /\ UNCHANGED <<ui, tracks, worktrees, devboxes, localBranch, originBranch, unpersisted, halfDone, now, prs, rebaseHead, tmux>>

\* git.CreateBranch(repoPath, branch, "origin/"+branch) or (..., "origin/"+defaultBranch)
WtCreateBranch(p) ==
    /\ proc[p].pc = "wt_branch"
    /\ LET b == proc[p].branch
           baseSHA == IF proc[p].remoteBranchExists THEN originBranch[b] ELSE DefaultTip
           possible == CreateBranchPossible(localBranch, b, baseSHA)
       IN \E ok \in Outcomes(possible) :
            LET rec == Logged(p, "git.CreateBranch", b, possible, ok)
            IN  /\ proc' = [proc EXCEPT ![p] =
                        IF ok THEN [rec EXCEPT !.pc = "wt_sha"]
                        ELSE Returned(rec, Err(IF proc[p].remoteBranchExists
                                               THEN "failed to create branch from remote"
                                               ELSE "failed to create branch", {}))]
                /\ localBranch' = IF ok THEN CreateBranch(localBranch, b, baseSHA) ELSE localBranch
    /\ UNCHANGED <<ui, tracks, worktrees, devboxes, originBranch, unpersisted, halfDone, now, prs, rebaseHead, tmux>>

\* sha, err := git.GetBranchSHA(repoPath, branch); then slug and worktreePath
WtGetBranchSHA(p) ==
    /\ proc[p].pc = "wt_sha"
    /\ LET possible == localBranch[proc[p].branch] # NoSHA
       IN \E ok \in Outcomes(possible) :
            LET rec == Logged(p, "git.GetBranchSHA", proc[p].branch, possible, ok)
                sha == localBranch[proc[p].branch]
            IN  proc' = [proc EXCEPT ![p] =
                    IF ok THEN [rec EXCEPT !.pc = "wt_mkdir", !.sha = sha,
                                           !.locator = WorktreePath(GenerateSlug(proc[p].branch, sha))]
                    ELSE Returned(rec, Err("failed to get branch SHA", {}))]
    /\ UNCHANGED <<ui, tracks, worktrees, devboxes, localBranch, originBranch, unpersisted, halfDone, now, prs, rebaseHead, tmux>>

\* os.MkdirAll(worktreeBase, 0755)
WtMkdirAll(p) ==
    /\ proc[p].pc = "wt_mkdir"
    /\ \E ok \in Outcomes(TRUE) :
        LET rec == Logged(p, "os.MkdirAll", WorktreeBaseDir, TRUE, ok)
        IN  proc' = [proc EXCEPT ![p] =
                IF ok THEN [rec EXCEPT !.pc = "wt_add"]
                ELSE Returned(rec, Err("failed to create worktree base directory", {}))]
    /\ UNCHANGED <<ui, tracks, worktrees, devboxes, localBranch, originBranch, unpersisted, halfDone, now, prs, rebaseHead, tmux>>

\* git.WorktreeAdd(repoPath, worktreePath, branch)
WtWorktreeAdd(p) ==
    /\ proc[p].pc = "wt_add"
    /\ LET path == proc[p].locator
           possible == WorktreeAddPossible(worktrees, path, proc[p].branch)
       IN \E ok \in Outcomes(possible) :
            LET rec == Logged(p, "git.WorktreeAdd", path, possible, ok)
                next == NewTrackAfterProvision(ok, "wt_insert")
            IN  /\ proc' = [proc EXCEPT ![p] =
                        IF next = "done" THEN Returned(rec, Err("failed to add worktree", {path}))
                        ELSE [rec EXCEPT !.pc = next]]
                /\ worktrees' = IF ok THEN WorktreeAdd(worktrees, path, proc[p].branch) ELSE worktrees
    /\ UNCHANGED <<ui, tracks, devboxes, localBranch, originBranch, unpersisted, halfDone, now, prs, rebaseHead, tmux>>

\* o.db.InsertTrack(trackRecord)
WtInsertTrack(p) ==
    /\ proc[p].pc = "wt_insert"
    /\ LET t == Track(proc[p].branch, ConfigRemote, proc[p].sha, TrackTypeWorktree,
                      Some(proc[p].locator), None, Some(now), Some(now))
           possible == ~DB_InsertTrackRejected(tracks, t)
       IN \E ok \in Outcomes(possible) :
            LET rec == Logged(p, "db.InsertTrack", proc[p].branch, possible, ok)
                next == NewTrackAfterInsert(ok, "wt_cleanup")
            IN  /\ proc' = [proc EXCEPT ![p] =
                        IF next = "done"
                        THEN Returned(rec, IF ok THEN NoErr ELSE RecordFailedErr(proc[p].locator, FALSE))
                        ELSE [rec EXCEPT !.pc = next]]
                /\ tracks' = IF ok THEN DB_InsertTrack(tracks, t, now) ELSE tracks
    /\ UNCHANGED <<ui, worktrees, devboxes, localBranch, originBranch, unpersisted, halfDone, now, prs, rebaseHead, tmux>>

\* _ = git.WorktreeRemove(repoPath, worktreePath), then the error is returned
WtCleanup(p) ==
    /\ proc[p].pc = "wt_cleanup"
    /\ LET path == proc[p].locator
           possible == WorktreeRemovePossible(worktrees, path)
       IN \E ok \in Outcomes(possible) :
            /\ proc' = [proc EXCEPT ![p] =
                    Returned(Logged(p, "git.WorktreeRemove", path, possible, ok), RecordFailedErr(path, ok))]
            /\ worktrees' = IF ok THEN WorktreeRemove(worktrees, path) ELSE worktrees
            /\ halfDone' = (halfDone \/ ~ok)
    /\ UNCHANGED <<ui, tracks, devboxes, localBranch, originBranch, unpersisted, now, prs, rebaseHead, tmux>>

\* ---------------------------------------------------------- Ops.DeleteTrack
CallDeleteTrack(p, b, deleteRemote) ==
    /\ proc[p].pc = "idle"
    /\ proc' = [proc EXCEPT ![p] = [IdleProc EXCEPT !.pc = "del_get", !.op = "DeleteTrack",
                                                    !.branch = b, !.deleteRemote = deleteRemote,
                                                    !.rows0 = tracks, !.retry = (b \in unpersisted)]]
    /\ UNCHANGED <<ui, tracks, worktrees, devboxes, localBranch, originBranch, unpersisted, halfDone, now, prs, rebaseHead, tmux>>

\* variant: the remote branch is deleted whatever deleteRemote says
AlwaysPushDelete(deleteRemote) == "del_push"

\* where DeleteTrack goes once the local environment is deleted
DelAfterDeprovision(deleteRemote) == IF deleteRemote THEN "del_push" ELSE "del_db"

\* variant: the row is deleted without deleting the local environment
SkipDeprovision(trk, deleteRemote) == DelAfterDeprovision(deleteRemote)

\* where DeleteTrack goes with the track it read: to the deletion of the local
\* environment when the row carries its type's locator
DelAfterGetTrack(trk, deleteRemote) ==
    IF \/ trk.type = TrackTypeWorktree /\ trk.path # None
       \/ trk.type = TrackTypeDevbox /\ trk.devbox_name # None
    THEN "del_env"
    ELSE DelAfterDeprovision(deleteRemote)

\* trk, err := o.db.GetTrack(remote, branch)
DelGetTrack(p) ==
    /\ proc[p].pc = "del_get"
    /\ \E ok \in Outcomes(TRUE) :
        LET rec == Logged(p, "db.GetTrack", proc[p].branch, TRUE, ok)
            trk == DB_GetTrack(tracks, ConfigRemote, proc[p].branch)
        IN  proc' = [proc EXCEPT ![p] =
                IF ~ok THEN Returned(rec, Err("failed to get track", {}))
                ELSE IF trk = None THEN Returned(rec, Err("track not found for branch", {}))
                ELSE [rec EXCEPT !.trk = trk, !.pc = DelAfterGetTrack(trk[1], proc[p].deleteRemote)]]
    /\ UNCHANGED <<ui, tracks, worktrees, devboxes, localBranch, originBranch, unpersisted, halfDone, now, prs, rebaseHead, tmux>>

\* variant: DeleteTrack goes on when the removal failed
IgnoreRemoveError(type, ok, deleteRemote) ==
    IF type = TrackTypeWorktree THEN "del_prune" ELSE DelAfterDeprovision(deleteRemote)

\* where DeleteTrack goes after git.WorktreeRemove / devbox.Delete returned
DelAfterRemove(type, ok, deleteRemote) ==
    IF ~ok THEN "done"
    ELSE IF type = TrackTypeWorktree THEN "del_prune"
    ELSE DelAfterDeprovision(deleteRemote)

\* git.WorktreeRemove(repoPath, *trk.Path) or devbox.Delete(*trk.DevboxName)
DelDeprovision(p) ==
    /\ proc[p].pc = "del_env"
    /\ LET trk == proc[p].trk[1]
           isWt == trk.type = TrackTypeWorktree
           loc == IF isWt THEN trk.path[1] ELSE trk.devbox_name[1]
           possible == IF isWt THEN WorktreeRemovePossible(worktrees, loc)
                       ELSE DevboxDeletePossible(devboxes, loc)
       IN \E ok \in Outcomes(possible) :
            LET rec == Logged(p, IF isWt THEN "git.WorktreeRemove" ELSE "devbox.Delete", loc, possible, ok)
                next == DelAfterRemove(trk.type, ok, proc[p].deleteRemote)
            IN  /\ proc' = [proc EXCEPT ![p] =
                        IF next = "done"
                        THEN Returned(rec, Err(IF isWt THEN "failed to remove worktree"
                                               ELSE "failed to delete devbox", {loc}))
                        ELSE [rec EXCEPT !.pc = next]]
                /\ worktrees' = IF ok /\ isWt THEN WorktreeRemove(worktrees, loc) ELSE worktrees
                /\ devboxes' = IF ok /\ ~isWt THEN DevboxDelete(devboxes, loc) ELSE devboxes
    /\ UNCHANGED <<ui, tracks, localBranch, originBranch, unpersisted, halfDone, now, prs, rebaseHead, tmux>>

\* _ = git.WorktreePrune(repoPath)
DelWorktreePrune(p) ==
    /\ proc[p].pc = "del_prune"
    /\ \E ok \in Outcomes(TRUE) :
        proc' = [proc EXCEPT ![p] =
            [Logged(p, "git.WorktreePrune", <<>>, TRUE, ok) EXCEPT
                !.pc = DelAfterDeprovision(proc[p].deleteRemote)]]
    /\ UNCHANGED <<ui, tracks, worktrees, devboxes, localBranch, originBranch, unpersisted, halfDone, now, prs, rebaseHead, tmux>>

\* git.PushDelete(repoPath, branch): a failure is a warning on stderr
DelPushDelete(p) ==
    /\ proc[p].pc = "del_push"
    /\ LET b == proc[p].branch
           possible == PushDeletePossible(originBranch, b)
       IN \E ok \in Outcomes(possible) :
            /\ proc' = [proc EXCEPT ![p] = [Logged(p, "git.PushDelete", b, possible, ok) EXCEPT !.pc = "del_db"]]
            /\ originBranch' = IF ok THEN PushDelete(originBranch, b) ELSE originBranch
    /\ UNCHANGED <<ui, tracks, worktrees, devboxes, localBranch, unpersisted, halfDone, now, prs, rebaseHead, tmux>>

\* o.db.DeleteTrack(remote, branch)
DelDBDelete(p) ==
    /\ proc[p].pc = "del_db"
    /\ LET b == proc[p].branch
           possible == ~DB_DeleteTrackRejected(tracks, ConfigRemote, b)
       IN \E ok \in Outcomes(possible) :
            LET rec == Logged(p, "db.DeleteTrack", b, possible, ok)
            IN  /\ proc' = [proc EXCEPT ![p] =
                        Returned(rec, IF ok THEN NoErr
                                      ELSE Err("failed to remove track from database", {}))]
                /\ tracks' = IF ok THEN DB_DeleteTrack(tracks, ConfigRemote, b) ELSE tracks
                /\ unpersisted' = IF ok THEN unpersisted \ {b} ELSE unpersisted \cup {b}
                /\ halfDone' = (halfDone \/ ~ok)
    /\ UNCHANGED <<ui, worktrees, devboxes, localBranch, originBranch, now, prs, rebaseHead, tmux>>

\* the caller has the call's result and is ready for the next call
Return(p) ==
    /\ proc[p].pc = "done"
    /\ proc' = [proc EXCEPT ![p] = IdleProc]
    /\ UNCHANGED <<ui, tracks, worktrees, devboxes, localBranch, originBranch, unpersisted, halfDone, now, prs, rebaseHead, tmux>>

\* --------------------------------------------------------------------- Spec
\* One caller; one engine operation at a time.
NewTrackDevboxStep(p) ==
    \/ DbxExists(p) \/ DbxCreate(p) \/ DbxFetch(p) \/ DbxGetBranchSHA(p)
    \/ DbxInsertTrack(p) \/ DbxCleanup(p)

NewTrackWorktreeStep(p) ==
    \/ WtFetch(p) \/ WtGetDefaultBranch(p) \/ WtCheckLocal(p) \/ WtCheckRemote(p)
    \/ WtCreateBranch(p) \/ WtGetBranchSHA(p) \/ WtMkdirAll(p) \/ WtWorktreeAdd(p)
    \/ WtInsertTrack(p) \/ WtCleanup(p)

DeleteTrackStep(p) ==
    \/ DelGetTrack(p) \/ DelDeprovision(p) \/ DelWorktreePrune(p) \/ DelPushDelete(p)
    \/ DelDBDelete(p)

Next ==
    \E p \in {MainProc} :
        \/ \E b \in Branches : CallNewTrackWorktree(p, b)
        \/ \E b \in Branches : CallNewTrackDevbox(p, b)
        \/ \E b \in Branches, deleteRemote \in BOOLEAN : CallDeleteTrack(p, b, deleteRemote)
        \/ NewTrackWorktreeStep(p)
        \/ NewTrackDevboxStep(p)
        \/ DeleteTrackStep(p)
        \/ Return(p)

Spec == Init /\ [][Next]_vars

\* ----------------------------------------------------------------- SpecRace
\* Two callers, each in one NewTrack call for the same branch of an empty registry.
InitRace ==
    /\ tracks = {}
    /\ worktrees = {}
    /\ devboxes = {}
    /\ originBranch = OriginAtStart
    /\ unpersisted = {}
    /\ halfDone = FALSE
    /\ ui = UiAtStart
    /\ now = 0
    /\ prs = [b \in Branches |-> NoPR]
    /\ rebaseHead = [b \in Branches |-> NoSHA]
    /\ tmux = NoTmux
    /\ \E b \in Branches, sha \in {NoSHA, SHA1}, kinds \in [Procs -> TrackTypes] :
        /\ localBranch = [x \in Branches |-> IF x = b THEN sha ELSE NoSHA]
        /\ proc = [p \in Procs |-> IF kinds[p] = TrackTypeWorktree
                                   THEN StartNewTrackWorktree(b, {})
                                   ELSE StartNewTrackDevbox(b, {})]

NextRace == \E p \in Procs : NewTrackWorktreeStep(p) \/ NewTrackDevboxStep(p)

SpecRace == InitRace /\ [][NextRace]_vars

\* ------------------------------------------------------------------- SpecDB
\* The registry alone, called as the tests of package db call it, with the clock.
\* The tracks a caller passes: a worktree track, a devbox track, a worktree track
\* without path (TestUniqueConstraint) and one of an unknown type (TestTypeConstraint).
TrackInputs ==
    {Track(b, r, SHA1, shape[1],
           IF shape[2] THEN Some(WorktreePath(GenerateSlug(b, SHA1))) ELSE None,
           IF shape[3] THEN Some(Slugify(b)) ELSE None,
           None, None) :
        b \in Branches, r \in Remotes,
        shape \in {<<TrackTypeWorktree, TRUE, FALSE>>, <<TrackTypeDevbox, FALSE, TRUE>>,
                   <<TrackTypeWorktree, FALSE, FALSE>>, <<"invalid", FALSE, FALSE>>}}

\* the caller's record after a registry call with track t returned err
RegistryReturned(op, err) ==
    [proc EXCEPT ![MainProc] = [IdleProc EXCEPT !.pc = "done", !.op = op, !.err = err]]

\* SQLite tests the CHECK constraint of a row before its UNIQUE index, and the
\* driver's error, wrapped with %w, names the constraint that failed
InsertTrackCall(t) ==
    /\ NextRowID(tracks) <= MaxId \/ DB_InsertTrackRejected(tracks, t)
    /\ \E ok \in Outcomes(~DB_InsertTrackRejected(tracks, t)) :
        /\ tracks' = IF ok THEN DB_InsertTrack(tracks, t, now) ELSE tracks
        /\ proc' = RegistryReturned("DB.InsertTrack",
                IF ok THEN NoErr
                ELSE Err("failed to insert track",
                         IF CheckViolation(t) THEN {"CHECK constraint failed"}
                         ELSE IF UniqueViolation(tracks, t) THEN {"UNIQUE constraint failed"}
                         ELSE {}))
    /\ UNCHANGED <<ui, worktrees, devboxes, localBranch, originBranch, unpersisted, halfDone, now, prs, rebaseHead, tmux>>

UpdateTrackCall(t) ==
    /\ \E ok \in Outcomes(~DB_UpdateTrackRejected(tracks, t)) :
        /\ tracks' = IF ok THEN DB_UpdateTrack(tracks, t) ELSE tracks
        /\ proc' = RegistryReturned("DB.UpdateTrack",
                                    IF ok THEN NoErr ELSE Err("failed to update track", {}))
    /\ UNCHANGED <<ui, worktrees, devboxes, localBranch, originBranch, unpersisted, halfDone, now, prs, rebaseHead, tmux>>

DeleteTrackCall(remoteURL, branch) ==
    /\ \E ok \in Outcomes(~DB_DeleteTrackRejected(tracks, remoteURL, branch)) :
        /\ tracks' = IF ok THEN DB_DeleteTrack(tracks, remoteURL, branch) ELSE tracks
        /\ proc' = RegistryReturned("DB.DeleteTrack",
                                    IF ok THEN NoErr ELSE Err("failed to delete track", {}))
    /\ UNCHANGED <<ui, worktrees, devboxes, localBranch, originBranch, unpersisted, halfDone, now, prs, rebaseHead, tmux>>

UpdateLastAccessedCall(remoteURL, branch) ==
    /\ \E ok \in Outcomes(~DB_UpdateLastAccessedRejected(tracks, remoteURL, branch)) :
        /\ tracks' = IF ok THEN DB_UpdateLastAccessed(tracks, remoteURL, branch, now) ELSE tracks
        /\ proc' = RegistryReturned("DB.UpdateLastAccessed",
                                    IF ok THEN NoErr ELSE Err("failed to update last accessed", {}))
    /\ UNCHANGED <<ui, worktrees, devboxes, localBranch, originBranch, unpersisted, halfDone, now, prs, rebaseHead, tmux>>

UpdateHeadSHACall(remoteURL, branch, sha) ==
    /\ \E ok \in Outcomes(~DB_UpdateHeadSHARejected(tracks, remoteURL, branch)) :
        /\ tracks' = IF ok THEN DB_UpdateHeadSHA(tracks, remoteURL, branch, sha) ELSE tracks
        /\ proc' = RegistryReturned("DB.UpdateHeadSHA",
                                    IF ok THEN NoErr ELSE Err("failed to update head SHA", {}))
    /\ UNCHANGED <<ui, worktrees, devboxes, localBranch, originBranch, unpersisted, halfDone, now, prs, rebaseHead, tmux>>

\* time passes
Tick ==
    /\ now < MaxTime
    /\ now' = now + 1
    /\ UNCHANGED <<ui, tracks, worktrees, devboxes, localBranch, originBranch, proc, unpersisted, halfDone, prs, rebaseHead, tmux>>

NextDB ==
    \/ \E t \in TrackInputs : InsertTrackCall(t)
    \/ \E t \in TrackInputs : UpdateTrackCall(t)
    \/ \E r \in Remotes, b \in Branches : DeleteTrackCall(r, b)
    \/ \E r \in Remotes, b \in Branches : UpdateLastAccessedCall(r, b)
    \/ \E r \in Remotes, b \in Branches, sha \in SHAs : UpdateHeadSHACall(r, b, sha)
    \/ Tick

SpecDB == Init /\ [][NextDB]_vars

\* InsertTrack and DeleteTrack alone
NextInsert ==
    \/ \E t \in TrackInputs : InsertTrackCall(t)
    \/ \E r \in Remotes, b \in Branches : DeleteTrackCall(r, b)

SpecInsert == Init /\ [][NextInsert]_vars

\* ------------------------------------------------- git and gh, for SyncTrack
\* a git command run in directory path works on the worktree at that path
IsWorktree(wts, path) == \E w \in wts : w.path = path
BranchAt(wts, path) == (CHOOSE w \in wts : w.path = path).branch

\* git rev-parse HEAD in the worktree of branch b: the branch's tip, or the
\* detached HEAD of a stopped rebase
GetHeadSHA(local, stopped, b) == IF stopped[b] # NoSHA THEN stopped[b] ELSE local[b]

\* git.Rebase: what (conflicts, err) can be. Outside a worktree git fails; in a
\* stopped rebase `git rebase` fails and `rebase --show-current-patch` succeeds,
\* which Rebase reports as conflicts; any run can fail for a reason of its own.
RebaseOutcomes(wts, stopped, path) ==
    IF ~IsWorktree(wts, path) THEN {"error"}
    ELSE IF stopped[BranchAt(wts, path)] # NoSHA THEN {"conflict", "error"}
    ELSE {"ok", "conflict", "error"}

\* git push --force-with-lease origin <branch>: origin's branch becomes the local one
PushForcePossible(wts, local, path, branch) == IsWorktree(wts, path) /\ local[branch] # NoSHA
PushForce(origin, local, branch) == [origin EXCEPT ![branch] = local[branch]]

\* gh pr create prints the URL of the new pull request, here split at "/";
\* CreatePR takes the last part as the number
PRURL(remote, number) == <<"https:", "", "github.com", remote, "pull", number>>
ParsePRNumber(output) == output[Len(output)]
NextPRNumber(host) ==
    (CHOOSE m \in {host[b] : b \in DOMAIN host} : \A b \in DOMAIN host : host[b] <= m) + 1
\* gh pr create fails when the branch has a pull request or is not on origin
CreatePRPossible(host, origin, branch) == host[branch] = NoPR /\ origin[branch] # NoSHA
CreatePR(host, branch) == [host EXCEPT ![branch] = NextPRNumber(host)]

\* ------------------------------------------------------------ Ops.SyncTrack
\* result := &SyncResult{}
EmptySyncResult ==
    [Rebased |-> FALSE, Pushed |-> FALSE, PRCreated |-> FALSE, PRNumber |-> 0,
     HasConflicts |-> FALSE, ConflictsPath |-> <<>>]

CallSyncTrack(p, b) ==
    /\ proc[p].pc = "idle"
    /\ proc' = [proc EXCEPT ![p] = [IdleProc EXCEPT !.pc = "sync_get", !.op = "SyncTrack",
                                                    !.branch = b, !.rows0 = tracks]]
    /\ UNCHANGED <<ui, tracks, worktrees, devboxes, localBranch, originBranch, unpersisted, halfDone, now, prs, rebaseHead, tmux>>

\* variant: SyncTrack does not look at the type of the track
SyncAnyKind(trk) == IF trk.path = None THEN Err("worktree track has no path", {}) ELSE NoErr

\* where SyncTrack goes with the track it read, or the error it returns
SyncAfterGetTrack(trk) ==
    IF trk.type = TrackTypeWorktree
    THEN IF trk.path = None THEN Err("worktree track has no path", {}) ELSE NoErr
    ELSE Err("sync is not supported for devbox tracks", {})

\* trk, err := o.db.GetTrack(remote, branch), and the switch on trk.Type
SyncGetTrack(p) ==
    /\ proc[p].pc = "sync_get"
    /\ \E ok \in Outcomes(TRUE) :
        LET rec == Logged(p, "db.GetTrack", proc[p].branch, TRUE, ok)
            trk == DB_GetTrack(tracks, ConfigRemote, proc[p].branch)
        IN  proc' = [proc EXCEPT ![p] =
                IF ~ok THEN Returned(rec, Err("failed to get track", {}))
                ELSE IF trk = None THEN Returned(rec, Err("track not found for branch", {}))
                ELSE IF SyncAfterGetTrack(trk[1]) # NoErr
                     THEN Returned([rec EXCEPT !.trk = trk], SyncAfterGetTrack(trk[1]))
                ELSE [rec EXCEPT !.trk = trk, !.locator = trk[1].path[1],
                                 !.result = Some(EmptySyncResult), !.pc = "sync_fetch"]]
    /\ UNCHANGED <<ui, tracks, worktrees, devboxes, localBranch, originBranch, unpersisted, halfDone, now, prs, rebaseHead, tmux>>

\* git.Fetch(workDir)
SyncFetch(p) ==
    /\ proc[p].pc = "sync_fetch"
    /\ LET possible == IsWorktree(worktrees, proc[p].locator)
       IN \E ok \in Outcomes(possible) :
            LET rec == Logged(p, "git.Fetch", proc[p].locator, possible, ok)
            IN  proc' = [proc EXCEPT ![p] =
                    IF ok THEN [rec EXCEPT !.pc = "sync_default"]
                    ELSE Returned([rec EXCEPT !.result = None], Err("failed to fetch", {}))]
    /\ UNCHANGED <<ui, tracks, worktrees, devboxes, localBranch, originBranch, unpersisted, halfDone, now, prs, rebaseHead, tmux>>

\* git.GetDefaultBranch(workDir)
SyncGetDefaultBranch(p) ==
    /\ proc[p].pc = "sync_default"
    /\ LET possible == IsWorktree(worktrees, proc[p].locator)
       IN \E ok \in Outcomes(possible) :
            LET rec == Logged(p, "git.GetDefaultBranch", proc[p].locator, possible, ok)
            IN  proc' = [proc EXCEPT ![p] =
                    IF ok THEN [rec EXCEPT !.pc = "sync_rebase"]
                    ELSE Returned([rec EXCEPT !.result = None], Err("failed to get default branch", {}))]
    /\ UNCHANGED <<ui, tracks, worktrees, devboxes, localBranch, originBranch, unpersisted, halfDone, now, prs, rebaseHead, tmux>>

\* variant: SyncTrack pushes whatever git.Rebase said of conflicts
NoConflictCheck(conflicts) == "sync_push"

\* where SyncTrack goes after git.Rebase returned without error
SyncAfterRebase(conflicts) == IF conflicts THEN "done" ELSE "sync_push"

\* conflicts, err := git.Rebase(workDir, "origin/"+defaultBranch): a rebase that
\* succeeds moves the branch to its new tip, one that stops on a conflict leaves
\* HEAD detached at the tip of the default branch
SyncRebase(p) ==
    /\ proc[p].pc = "sync_rebase"
    /\ LET path == proc[p].locator
           possible == IsWorktree(worktrees, path)
       IN \E outcome \in RebaseOutcomes(worktrees, rebaseHead, path), tip \in SHAs :
            LET rec == [Logged(p, "git.Rebase", path, possible, outcome # "error") EXCEPT
                            !.conflicts = (outcome = "conflict")]
                res == rec.result[1]
            IN  /\ outcome # "ok" => tip = DefaultTip
                /\ proc' = [proc EXCEPT ![p] =
                        IF outcome = "error"
                        THEN Returned([rec EXCEPT !.result = None], Err("rebase failed", {}))
                        ELSE IF SyncAfterRebase(rec.conflicts) = "done"
                        THEN Returned([rec EXCEPT !.result =
                                Some([res EXCEPT !.HasConflicts = TRUE, !.ConflictsPath = path])], NoErr)
                        ELSE [rec EXCEPT !.result = Some([res EXCEPT !.Rebased = TRUE]),
                                         !.pc = SyncAfterRebase(rec.conflicts)]]
                /\ localBranch' = IF outcome = "ok"
                                  THEN [localBranch EXCEPT ![BranchAt(worktrees, path)] = tip]
                                  ELSE localBranch
                /\ rebaseHead' = IF outcome = "conflict" /\ rebaseHead[BranchAt(worktrees, path)] = NoSHA
                                 THEN [rebaseHead EXCEPT ![BranchAt(worktrees, path)] = tip]
                                 ELSE rebaseHead
    /\ UNCHANGED <<ui, tracks, worktrees, devboxes, originBranch, unpersisted, halfDone, now, prs, tmux>>

\* variant: SyncTrack goes on when the push failed
IgnorePushError(ok) == "sync_head"

\* where SyncTrack goes after git.PushForce returned
SyncAfterPush(ok) == IF ok THEN "sync_head" ELSE "done"

\* git.PushForce(workDir, branch)
SyncPushForce(p) ==
    /\ proc[p].pc = "sync_push"
    /\ LET b == proc[p].branch
           possible == PushForcePossible(worktrees, localBranch, proc[p].locator, b)
       IN \E ok \in Outcomes(possible) :
            LET rec == Logged(p, "git.PushForce", b, possible, ok)
            IN  /\ proc' = [proc EXCEPT ![p] =
                        IF SyncAfterPush(ok) = "done"
                        THEN Returned([rec EXCEPT !.result = None], Err("failed to push", {}))
                        ELSE [rec EXCEPT !.result = Some([rec.result[1] EXCEPT !.Pushed = TRUE]),
                                         !.pc = SyncAfterPush(ok)]]
                /\ originBranch' = IF ok THEN PushForce(originBranch, localBranch, b) ELSE originBranch
    /\ UNCHANGED <<ui, tracks, worktrees, devboxes, localBranch, unpersisted, halfDone, now, prs, rebaseHead, tmux>>

\* newSHA, err := git.GetHeadSHA(workDir)
SyncGetHeadSHA(p) ==
    /\ proc[p].pc = "sync_head"
    /\ LET path == proc[p].locator
           possible == IsWorktree(worktrees, path)
       IN \E ok \in Outcomes(possible) :
            LET rec == Logged(p, "git.GetHeadSHA", path, possible, ok)
            IN  proc' = [proc EXCEPT ![p] =
                    IF ok THEN [rec EXCEPT !.pc = "sync_update",
                                    !.sha = GetHeadSHA(localBranch, rebaseHead, BranchAt(worktrees, path))]
                    ELSE [rec EXCEPT !.pc = "sync_pr"]]
    /\ UNCHANGED <<ui, tracks, worktrees, devboxes, localBranch, originBranch, unpersisted, halfDone, now, prs, rebaseHead, tmux>>

\* _ = o.db.UpdateHeadSHA(remote, branch, newSHA)
SyncUpdateHeadSHA(p) ==
    /\ proc[p].pc = "sync_update"
    /\ LET b == proc[p].branch
           possible == ~DB_UpdateHeadSHARejected(tracks, ConfigRemote, b)
       IN \E ok \in Outcomes(possible) :
            /\ proc' = [proc EXCEPT ![p] =
                    [Logged(p, "db.UpdateHeadSHA", b, possible, ok) EXCEPT !.pc = "sync_pr"]]
            /\ tracks' = IF ok THEN DB_UpdateHeadSHA(tracks, ConfigRemote, b, proc[p].sha) ELSE tracks
    /\ UNCHANGED <<ui, worktrees, devboxes, localBranch, originBranch, unpersisted, halfDone, now, prs, rebaseHead, tmux>>

\* variant: a failed lookup counts as "no pull request"
CreateAfterFailedLookup(ok, pr) == IF pr = NoPR THEN "sync_create" ELSE "done"

\* variant: the pull request is created whatever the lookup returned
CreateWhateverLookup(ok, pr) == "sync_create"

\* where SyncTrack goes after github.GetPRForBranch returned (pr: its number or NoPR)
SyncAfterGetPR(ok, pr) == IF ok /\ pr = NoPR THEN "sync_create" ELSE "done"

\* pr, err := github.GetPRForBranch(remote, branch)
SyncGetPRForBranch(p) ==
    /\ proc[p].pc = "sync_pr"
    /\ \E ok \in Outcomes(TRUE) :
        LET rec == Logged(p, "github.GetPRForBranch", proc[p].branch, TRUE, ok)
            next == SyncAfterGetPR(ok, prs[proc[p].branch])
        IN  proc' = [proc EXCEPT ![p] =
                IF next = "done" THEN Returned(rec, NoErr) ELSE [rec EXCEPT !.pc = next]]
    /\ UNCHANGED <<ui, tracks, worktrees, devboxes, localBranch, originBranch, unpersisted, halfDone, now, prs, rebaseHead, tmux>>

\* prNum, err := github.CreatePR(remote, branch, defaultBranch, title)
SyncCreatePR(p) ==
    /\ proc[p].pc = "sync_create"
    /\ LET b == proc[p].branch
           possible == CreatePRPossible(prs, originBranch, b)
       IN \E ok \in Outcomes(possible) :
            LET rec == Logged(p, "github.CreatePR", b, possible, ok)
                prNum == ParsePRNumber(PRURL(ConfigRemote, NextPRNumber(prs)))
            IN  /\ proc' = [proc EXCEPT ![p] =
                        Returned(IF ok THEN [rec EXCEPT !.result = Some([rec.result[1] EXCEPT
                                                    !.PRCreated = TRUE, !.PRNumber = prNum])]
                                 ELSE rec, NoErr)]
                /\ prs' = IF ok THEN CreatePR(prs, b) ELSE prs
    /\ UNCHANGED <<ui, tracks, worktrees, devboxes, localBranch, originBranch, unpersisted, halfDone, now, rebaseHead, tmux>>

SyncTrackStep(p) ==
    \/ SyncGetTrack(p) \/ SyncFetch(p) \/ SyncGetDefaultBranch(p) \/ SyncRebase(p)
    \/ SyncPushForce(p) \/ SyncGetHeadSHA(p) \/ SyncUpdateHeadSHA(p)
    \/ SyncGetPRForBranch(p) \/ SyncCreatePR(p)

\* --------------------------------------------------- Ops.RefreshTrackStatus
\* o.config.Repo.Path: the main checkout, where git always has a HEAD
RepoPath == <<".">>
\* a worktree of the repository of the other remote; its HEAD is SHA2
OtherRepoWorktree == <<".", ".", "/", "w">>
GitDir(wts, path) == path \in {RepoPath, OtherRepoWorktree} \/ IsWorktree(wts, path)
HeadAt(wts, local, stopped, path) ==
    IF IsWorktree(wts, path) THEN GetHeadSHA(local, stopped, BranchAt(wts, path))
    ELSE IF path = OtherRepoWorktree THEN SHA2
    ELSE DefaultTip

normalizeCIStatus(status) ==
    CASE status = "SUCCESS" -> "success"
      [] status \in {"FAILURE", "ERROR"} -> "failure"
      [] status \in {"PENDING", "EXPECTED", "QUEUED", "IN_PROGRESS"} -> "pending"
      [] OTHER -> "unknown"

normalizeReviewStatus(decision) ==
    CASE decision = "APPROVED" -> "approved"
      [] decision = "CHANGES_REQUESTED" -> "changes_requested"
      [] decision = "REVIEW_REQUIRED" -> "pending"
      [] OTHER -> "unknown"

\* the *PR GetPRForBranch returns for pull request `number`, of which gh pr view
\* reports state OPEN, status PENDING and reviewDecision REVIEW_REQUIRED
PR(number) ==
    [Number |-> number, State |-> "open",
     CIStatus |-> normalizeCIStatus("PENDING"),
     ReviewStatus |-> normalizeReviewStatus("REVIEW_REQUIRED")]

\* status := track.TrackStatus{}
EmptyStatus ==
    [GitStatus |-> [Clean |-> FALSE, Ahead |-> FALSE, Behind |-> FALSE,
                    AheadCount |-> 0, BehindCount |-> 0],
     PR |-> None, CI |-> None, Review |-> None,
     IsStale |-> FALSE, SHAMismatch |-> FALSE]

\* staleDuration := 7 * 24 * time.Hour, in days, the unit of the clock
StaleDuration == 7
\* variant: stale from the threshold on
StaleAtThreshold(trk, clock) ==
    trk.last_accessed # None /\ clock - trk.last_accessed[1] >= StaleDuration

IsStale(trk, clock) ==
    trk.last_accessed # None /\ clock - trk.last_accessed[1] > StaleDuration

\* the working directory RefreshTrackStatus queries: "" (here <<>>) for a devbox
RefreshWorkDir(trk) ==
    IF trk.type = TrackTypeWorktree THEN (IF trk.path # None THEN trk.path[1] ELSE RepoPath)
    ELSE <<>>

\* DB.ListTracks: ORDER BY last_accessed DESC NULLS LAST, created_at DESC, rows
\* that tie in the order of their rowid
ListedBefore(r1, r2) ==
    LET la1 == IF r1.last_accessed = None THEN -1 ELSE r1.last_accessed[1]
        la2 == IF r2.last_accessed = None THEN -1 ELSE r2.last_accessed[1]
    IN  \/ la1 > la2
        \/ la1 = la2 /\ r1.created_at[1] > r2.created_at[1]
        \/ la1 = la2 /\ r1.created_at[1] = r2.created_at[1] /\ r1.id < r2.id

\* variant: a listing that stops after its first row
ListFirstOnly(rows) == IF rows = {} THEN <<>> ELSE <<CHOOSE r \in rows : TRUE>>

RECURSIVE DB_ListTracks(_)
DB_ListTracks(rows) ==
    IF rows = {} THEN <<>>
    ELSE LET first == CHOOSE r \in rows : \A q \in rows \ {r} : ListedBefore(r, q)
         IN  <<first>> \o DB_ListTracks(rows \ {first})

\* RefreshTrackStatus begins on trk, in a call of its own or in ListTracksWithStatus
RefreshBegin(rec, trk) ==
    [rec EXCEPT !.trk = Some(trk), !.branch = trk.branch, !.locator = RefreshWorkDir(trk),
                !.result = Some(EmptyStatus),
                !.pc = IF RefreshWorkDir(trk) # <<>> THEN "ref_dirty" ELSE "ref_pr"]

\* RefreshTrackStatus returns status: to its caller, or to the loop of
\* ListTracksWithStatus, which appends the entry and refreshes the next track
RefreshEnd(rec, status) ==
    IF rec.op = "ListTracksWithStatus"
    THEN LET entries == Append(rec.entries, [Track |-> rec.trk[1], Status |-> status])
             todo == Tail(rec.todo)
         IN  IF todo = <<>>
             THEN Returned([rec EXCEPT !.entries = entries, !.todo = todo,
                                       !.result = Some(entries)], NoErr)
             ELSE RefreshBegin([rec EXCEPT !.entries = entries, !.todo = todo], Head(todo))
    ELSE Returned([rec EXCEPT !.result = Some(status)], NoErr)

CallRefreshTrackStatus(p, trk) ==
    /\ proc[p].pc = "idle"
    /\ proc' = [proc EXCEPT ![p] =
            RefreshBegin([IdleProc EXCEPT !.op = "RefreshTrackStatus", !.rows0 = tracks], trk)]
    /\ UNCHANGED <<ui, tracks, worktrees, devboxes, localBranch, originBranch, unpersisted, halfDone, now, prs, rebaseHead, tmux>>

\* dirty, err := git.IsDirty(workDir)
RefIsDirty(p) ==
    /\ proc[p].pc = "ref_dirty"
    /\ LET possible == GitDir(worktrees, proc[p].locator)
       IN \E ok \in Outcomes(possible), dirty \in BOOLEAN :
            LET rec == Logged(p, "git.IsDirty", proc[p].locator, possible, ok)
            IN  /\ ~ok => ~dirty
                /\ proc' = [proc EXCEPT ![p] =
                        [rec EXCEPT !.pc = "ref_default",
                                    !.result = IF ok THEN Some([@[1] EXCEPT !.GitStatus.Clean = ~dirty])
                                               ELSE @]]
    /\ UNCHANGED <<ui, tracks, worktrees, devboxes, localBranch, originBranch, unpersisted, halfDone, now, prs, rebaseHead, tmux>>

\* defaultBranch, err := git.GetDefaultBranch(workDir)
RefGetDefaultBranch(p) ==
    /\ proc[p].pc = "ref_default"
    /\ LET possible == GitDir(worktrees, proc[p].locator)
       IN \E ok \in Outcomes(possible) :
            proc' = [proc EXCEPT ![p] =
                [Logged(p, "git.GetDefaultBranch", proc[p].locator, possible, ok) EXCEPT
                    !.pc = IF ok THEN "ref_ahead" ELSE "ref_head"]]
    /\ UNCHANGED <<ui, tracks, worktrees, devboxes, localBranch, originBranch, unpersisted, halfDone, now, prs, rebaseHead, tmux>>

\* the counts git rev-list --left-right --count can print
AheadBehindCounts == {<<0, 0>>, <<2, 1>>}

\* ahead, behind, err := git.AheadBehind(workDir, trk.Branch, "origin/"+defaultBranch)
RefAheadBehind(p) ==
    /\ proc[p].pc = "ref_ahead"
    /\ LET possible == GitDir(worktrees, proc[p].locator) /\ localBranch[proc[p].branch] # NoSHA
       IN \E ok \in Outcomes(possible), counts \in AheadBehindCounts :
            LET rec == Logged(p, "git.AheadBehind", proc[p].branch, possible, ok)
            IN  /\ ~ok => counts = <<0, 0>>
                /\ proc' = [proc EXCEPT ![p] =
                        [rec EXCEPT !.pc = "ref_head",
                                    !.result = IF ok
                                        THEN Some([@[1] EXCEPT !.GitStatus.Ahead = counts[1] > 0,
                                                               !.GitStatus.Behind = counts[2] > 0,
                                                               !.GitStatus.AheadCount = counts[1],
                                                               !.GitStatus.BehindCount = counts[2]])
                                        ELSE @]]
    /\ UNCHANGED <<ui, tracks, worktrees, devboxes, localBranch, originBranch, unpersisted, halfDone, now, prs, rebaseHead, tmux>>

\* variant: RefreshTrackStatus never sees a mismatch
NeverMismatch(ok, currentSHA, headSHA) == FALSE

\* whether RefreshTrackStatus reports a mismatch and updates the registry
SHAMismatch(ok, currentSHA, headSHA) ==
    ok /\ headSHA # <<>> /\ headSHA # UnknownSHA /\ currentSHA # headSHA

\* currentSHA, err := git.GetHeadSHA(workDir), and the comparison with trk.HeadSHA
RefGetHeadSHA(p) ==
    /\ proc[p].pc = "ref_head"
    /\ LET path == proc[p].locator
           possible == GitDir(worktrees, path)
       IN \E ok \in Outcomes(possible) :
            LET rec == Logged(p, "git.GetHeadSHA", path, possible, ok)
                currentSHA == HeadAt(worktrees, localBranch, rebaseHead, path)
                mismatch == SHAMismatch(ok, currentSHA, proc[p].trk[1].head_sha)
            IN  proc' = [proc EXCEPT ![p] =
                    IF mismatch
                    THEN [rec EXCEPT !.sha = currentSHA, !.pc = "ref_update",
                                     !.result = Some([@[1] EXCEPT !.SHAMismatch = TRUE])]
                    ELSE [rec EXCEPT !.pc = "ref_pr"]]
    /\ UNCHANGED <<ui, tracks, worktrees, devboxes, localBranch, originBranch, unpersisted, halfDone, now, prs, rebaseHead, tmux>>

\* _ = o.db.UpdateHeadSHA(remote, trk.Branch, currentSHA)
RefUpdateHeadSHA(p) ==
    /\ proc[p].pc = "ref_update"
    /\ LET b == proc[p].branch
           possible == ~DB_UpdateHeadSHARejected(tracks, ConfigRemote, b)
       IN \E ok \in Outcomes(possible) :
            /\ proc' = [proc EXCEPT ![p] =
                    [Logged(p, "db.UpdateHeadSHA", b, possible, ok) EXCEPT !.pc = "ref_pr"]]
            /\ tracks' = IF ok THEN DB_UpdateHeadSHA(tracks, ConfigRemote, b, proc[p].sha) ELSE tracks
    /\ UNCHANGED <<ui, worktrees, devboxes, localBranch, originBranch, unpersisted, halfDone, now, prs, rebaseHead, tmux>>

\* the status with what GetPRForBranch returned, and the stale flag
StatusWithPR(status, ok, number, trk, clock) ==
    LET pr == PR(number)
        st == IF ok /\ number # NoPR
              THEN [status EXCEPT
                        !.PR = Some([Number |-> pr.Number, State |-> pr.State, Draft |-> FALSE]),
                        !.CI = Some([Passing |-> pr.CIStatus = "success",
                                     Pending |-> pr.CIStatus = "pending",
                                     Failing |-> pr.CIStatus = "failure"]),
                        !.Review = Some([Approved |-> pr.ReviewStatus = "approved",
                                         ChangesRequested |-> pr.ReviewStatus = "changes_requested",
                                         Pending |-> pr.ReviewStatus = "pending"])]
              ELSE status
    IN  [st EXCEPT !.IsStale = IsStale(trk, clock)]

\* pr, err := github.GetPRForBranch(remote, trk.Branch), the stale check, the return
RefGetPRForBranch(p) ==
    /\ proc[p].pc = "ref_pr"
    /\ \E ok \in Outcomes(TRUE) :
        LET rec == Logged(p, "github.GetPRForBranch", proc[p].branch, TRUE, ok)
        IN  proc' = [proc EXCEPT ![p] =
                RefreshEnd(rec, StatusWithPR(rec.result[1], ok, prs[proc[p].branch], proc[p].trk[1], now))]
    /\ UNCHANGED <<ui, tracks, worktrees, devboxes, localBranch, originBranch, unpersisted, halfDone, now, prs, rebaseHead, tmux>>

RefreshTrackStatusStep(p) ==
    \/ RefIsDirty(p) \/ RefGetDefaultBranch(p) \/ RefAheadBehind(p) \/ RefGetHeadSHA(p)
    \/ RefUpdateHeadSHA(p) \/ RefGetPRForBranch(p)

\* ------------------------------------------------- Ops.ListTracksWithStatus
CallListTracksWithStatus(p) ==
    /\ proc[p].pc = "idle"
    /\ proc' = [proc EXCEPT ![p] = [IdleProc EXCEPT !.pc = "list_tracks", !.rows0 = tracks,
                                                    !.op = "ListTracksWithStatus"]]
    /\ UNCHANGED <<ui, tracks, worktrees, devboxes, localBranch, originBranch, unpersisted, halfDone, now, prs, rebaseHead, tmux>>

\* tracks, err := o.db.ListTracks()
ListListTracks(p) ==
    /\ proc[p].pc = "list_tracks"
    /\ \E ok \in Outcomes(TRUE) :
        LET rec == Logged(p, "db.ListTracks", <<>>, TRUE, ok)
            listed == DB_ListTracks(tracks)
        IN  proc' = [proc EXCEPT ![p] =
                IF ~ok THEN Returned(rec, Err("failed to list tracks", {}))
                ELSE IF listed = <<>> THEN Returned([rec EXCEPT !.result = Some(<<>>)], NoErr)
                ELSE RefreshBegin([rec EXCEPT !.todo = listed], Head(listed))]
    /\ UNCHANGED <<ui, tracks, worktrees, devboxes, localBranch, originBranch, unpersisted, halfDone, now, prs, rebaseHead, tmux>>

\* ----------------------------------------------------------------- SpecSync
\* SyncTrack, RefreshTrackStatus and ListTracksWithStatus on a registry of tracks
\* that NewTrackWorktree and NewTrackDevbox made, while the user commits.
NoWorld ==
    [tracks |-> {}, worktrees |-> {}, devboxes |-> {},
     localBranch |-> [b \in Branches |-> NoSHA]]

\* the world after a successful NewTrackWorktree(b) / NewTrackDevbox(b) at time 0,
\* or the world as it was where the call would have failed
AfterNewTrackWorktree(w, b) ==
    LET base == IF OriginAtStart[b] # NoSHA THEN OriginAtStart[b] ELSE DefaultTip
        path == WorktreePath(GenerateSlug(b, base))
        t == Track(b, ConfigRemote, base, TrackTypeWorktree, Some(path), None, Some(0), Some(0))
    IN  IF WorktreeAddPossible(w.worktrees, path, b) /\ ~DB_InsertTrackRejected(w.tracks, t)
        THEN [w EXCEPT !.tracks = DB_InsertTrack(w.tracks, t, 0),
                       !.worktrees = WorktreeAdd(w.worktrees, path, b),
                       !.localBranch = CreateBranch(w.localBranch, b, base)]
        ELSE w

AfterNewTrackDevbox(w, b) ==
    LET sha == IF OriginAtStart[b] # NoSHA THEN OriginAtStart[b] ELSE UnknownSHA
        name == Slugify(b)
        t == Track(b, ConfigRemote, sha, TrackTypeDevbox, None, Some(name), Some(0), Some(0))
    IN  IF DevboxCreatePossible(w.devboxes, name) /\ ~DB_InsertTrackRejected(w.tracks, t)
        THEN [w EXCEPT !.tracks = DB_InsertTrack(w.tracks, t, 0),
                       !.devboxes = DevboxCreate(w.devboxes, name, b)]
        ELSE w

\* the world after the NewTrack calls of kinds for the first i branches of the pool
RECURSIVE AfterNewTracks(_, _)
AfterNewTracks(i, kinds) ==
    IF i = 0 THEN NoWorld
    ELSE LET w == AfterNewTracks(i - 1, kinds)
             b == BranchPool[i]
         IN  IF kinds[b] = TrackTypeWorktree THEN AfterNewTrackWorktree(w, b)
             ELSE IF kinds[b] = TrackTypeDevbox THEN AfterNewTrackDevbox(w, b)
             ELSE w

\* a track of the other remote, made when the configuration named that remote
OtherRepoTrack(rows) ==
    [Track(BranchPool[2], "other/repo", SHA1, TrackTypeWorktree, Some(OtherRepoWorktree),
           None, Some(0), Some(0)) EXCEPT !.id = NextRowID(rows)]

InitSync ==
    /\ \E kinds \in [Branches -> TrackTypes \cup {"none"}], other \in BOOLEAN :
        LET w == AfterNewTracks(NumBranches, kinds)
        IN  /\ tracks = IF other THEN w.tracks \cup {OtherRepoTrack(w.tracks)} ELSE w.tracks
            /\ worktrees = w.worktrees
            /\ devboxes = w.devboxes
            /\ localBranch = w.localBranch
    /\ originBranch = OriginAtStart
    /\ proc = [p \in Procs |-> IdleProc]
    /\ unpersisted = {}
    /\ halfDone = FALSE
    /\ ui = UiAtStart
    /\ now = 0
    /\ prs = [b \in Branches |-> NoPR]
    /\ rebaseHead = [b \in Branches |-> NoSHA]
    /\ tmux = NoTmux

\* between two calls, the user commits in the worktree of branch b
Commit(b) ==
    /\ \A p \in Procs : proc[p].pc = "idle"
    /\ \E w \in worktrees : w.branch = b
    /\ rebaseHead[b] = NoSHA
    /\ \E sha \in SHAs \ {localBranch[b]} : localBranch' = [localBranch EXCEPT ![b] = sha]
    /\ UNCHANGED <<ui, tracks, worktrees, devboxes, originBranch, proc, unpersisted, halfDone, now, prs, rebaseHead, tmux>>

NextSync ==
    \E p \in {MainProc} :
        \/ \E b \in Branches : CallSyncTrack(p, b)
        \/ \E trk \in tracks : CallRefreshTrackStatus(p, trk)
        \/ SyncTrackStep(p)
        \/ RefreshTrackStatusStep(p)
        \/ \E b \in Branches : Commit(b)
        \/ Return(p)

SpecSync == InitSync /\ [][NextSync]_vars

\* ---------------------------------------------------------------- SpecDrift
\* One SyncTrack, and once it has returned a RefreshTrackStatus of the track it
\* synced, as the registry has it then. The second caller refreshes, so that the
\* record of the SyncTrack call stays.
Refresher == 2

RefreshAfterSync(trk) ==
    /\ proc[MainProc].pc = "done"
    /\ proc[MainProc].op = "SyncTrack"
    /\ trk.remote_url = ConfigRemote
    /\ trk.branch = proc[MainProc].branch
    /\ CallRefreshTrackStatus(Refresher, trk)

NextDrift ==
    \/ \E b \in Branches : CallSyncTrack(MainProc, b)
    \/ SyncTrackStep(MainProc)
    \/ \E trk \in tracks : RefreshAfterSync(trk)
    \/ RefreshTrackStatusStep(Refresher)

SpecDrift == InitSync /\ [][NextDrift]_vars

\* the rows of the registry that have the identity of row r
SameTrack(rows, r) == RowsOf(rows, r.remote_url, r.branch)

\* ---------------------------------------------------------------- SpecTwice
\* A RefreshTrackStatus of a track, and once it has returned a second one of the
\* same track as the registry has it then; the working copies are not touched in
\* between. The second caller makes the second call, so that the record of the
\* first stays.
RefreshAgain(trk) ==
    /\ proc[MainProc].pc = "done"
    /\ proc[MainProc].op = "RefreshTrackStatus"
    /\ trk \in SameTrack(tracks, proc[MainProc].trk[1])
    /\ CallRefreshTrackStatus(Refresher, trk)

NextTwice ==
    \/ \E b \in Branches : Commit(b)
    \/ \E trk \in tracks : CallRefreshTrackStatus(MainProc, trk)
    \/ RefreshTrackStatusStep(MainProc)
    \/ \E trk \in tracks : RefreshAgain(trk)
    \/ RefreshTrackStatusStep(Refresher)

SpecTwice == InitSync /\ [][NextTwice]_vars

\* ----------------------------------------------------------------- SpecList
\* ListTracksWithStatus on the same registries.
NextList ==
    \E p \in {MainProc} :
        \/ CallListTracksWithStatus(p)
        \/ ListListTracks(p)
        \/ RefreshTrackStatusStep(p)
        \/ Return(p)

SpecList == InitSync /\ [][NextList]_vars

\* ------------------------------------- tmux, Ops.JumpToTrack and Ops.RunAI
\* track.SanitizeForTmux: '.' and ':' become '_' (the alphabet of the branches has
\* no non-printable character), and the empty name becomes "unnamed"
SanitizeForTmux(branch) ==
    LET result == [i \in DOMAIN branch |-> IF branch[i] \in {".", ":"} THEN "_" ELSE branch[i]]
    IN  IF result = <<>> THEN <<"u","n","n","a","m","e","d">> ELSE result

\* the windows that target "trak:<name>" can resolve to
WindowsNamed(tm, name) == {i \in DOMAIN tm.windows : tm.windows[i].name = name}

\* JumpToTrack(b) or RunAI(b) begins; a call begins only while the windows and the
\* commands sent are within their bounds
CallJumpOrRunAI(p, op, b) ==
    /\ proc[p].pc = "idle"
    /\ Len(tmux.windows) < MaxWindows
    /\ \A i \in DOMAIN tmux.windows : Len(tmux.windows[i].keys) < MaxKeys
    /\ proc' = [proc EXCEPT ![p] =
            [IdleProc EXCEPT !.pc = "get", !.op = op, !.branch = b, !.rows0 = tracks,
                             !.tmux0 = tmux, !.time0 = now]]
    /\ UNCHANGED <<ui, tracks, worktrees, devboxes, localBranch, originBranch, unpersisted, halfDone, now, prs, rebaseHead, tmux>>

\* variant: a call that goes on without the track
ProceedUntracked(ok, trk) == IF ~ok THEN Err("failed to get track", {}) ELSE NoErr

\* the error of JumpToTrack and RunAI after o.db.GetTrack
AfterGetTrack(ok, trk) ==
    IF ~ok THEN Err("failed to get track", {})
    ELSE IF trk = None THEN Err("track not found for branch", {})
    ELSE NoErr

\* variant: RunAI does not look at the type of the track
RunAIAnyKind(trk) == NoErr

\* the error of RunAI's switch on trk.Type
RunAIAfterGetTrack(trk) ==
    IF trk.type = TrackTypeWorktree
    THEN IF trk.path = None THEN Err("worktree track has no path", {}) ELSE NoErr
    ELSE Err("AI assistant is not supported for devbox tracks", {})

\* variant: the window is created whatever WindowExists returned
AlwaysCreateWindow(result) == IF result = "error" THEN "done" ELSE "newwindow"

\* where JumpToTrack goes after tmux.WindowExists ("done": it returns the error)
JumpAfterWindowExists(result) ==
    IF result = "error" THEN "done" ELSE IF result = "no" THEN "newwindow" ELSE "switch"

\* trk, err := o.db.GetTrack(remote, branch) of both, and RunAI's switch on trk.Type,
\* which sets toadPath (locator)
GetTrackStep(p) ==
    /\ proc[p].pc = "get"
    /\ \E ok \in Outcomes(TRUE) :
        LET rec == Logged(p, "db.GetTrack", proc[p].branch, TRUE, ok)
            trk == DB_GetTrack(tracks, ConfigRemote, proc[p].branch)
            err == AfterGetTrack(ok, trk)
        IN  proc' = [proc EXCEPT ![p] =
                IF err # NoErr THEN Returned(rec, err)
                ELSE IF proc[p].op = "JumpToTrack" THEN [rec EXCEPT !.trk = trk, !.pc = "touch"]
                ELSE IF RunAIAfterGetTrack(trk[1]) # NoErr
                     THEN Returned([rec EXCEPT !.trk = trk], RunAIAfterGetTrack(trk[1]))
                ELSE [rec EXCEPT !.trk = trk, !.pc = "touch",
                                 !.locator = IF trk[1].path # None THEN trk[1].path[1] ELSE <<>>]]
    /\ UNCHANGED <<ui, tracks, worktrees, devboxes, localBranch, originBranch, unpersisted, halfDone, now, prs, rebaseHead, tmux>>

\* _ = o.db.UpdateLastAccessed(remote, branch)
TouchStep(p) ==
    /\ proc[p].pc = "touch"
    /\ LET possible == ~DB_UpdateLastAccessedRejected(tracks, ConfigRemote, proc[p].branch)
       IN \E ok \in Outcomes(possible) :
            /\ proc' = [proc EXCEPT ![p] =
                    [Logged(p, "db.UpdateLastAccessed", proc[p].branch, possible, ok) EXCEPT
                        !.pc = "session"]]
            /\ tracks' = IF ok THEN DB_UpdateLastAccessed(tracks, ConfigRemote, proc[p].branch, now)
                         ELSE tracks
    /\ UNCHANGED <<ui, worktrees, devboxes, localBranch, originBranch, unpersisted, halfDone, now, prs, rebaseHead, tmux>>

\* sessionExists, err := tmux.SessionExists(sessionName). "yes"/"no" are (true, nil)
\* and (false, nil), "error" is an error: any failure of has-session with exit status
\* 1 reads as "no", a tmux that cannot be run is an error. JumpToTrack returns the
\* error, RunAI drops it.
SessionExistsStep(p) ==
    /\ proc[p].pc = "session"
    /\ \E result \in (IF tmux.session THEN {"yes"} ELSE {}) \cup {"no", "error"} :
        LET rec == [Logged(p, "tmux.SessionExists", <<>>, TRUE, result # "error") EXCEPT
                        !.fault = @ \/ (tmux.session /\ result = "no")]
        IN  proc' = [proc EXCEPT ![p] =
                IF result = "yes" THEN [rec EXCEPT !.pc = "window"]
                ELSE IF result = "error" /\ proc[p].op = "JumpToTrack"
                     THEN Returned(rec, Err("failed to check session", {}))
                ELSE [rec EXCEPT !.pc = "newsession"]]
    /\ UNCHANGED <<ui, tracks, worktrees, devboxes, localBranch, originBranch, unpersisted, halfDone, now, prs, rebaseHead, tmux>>

\* tmux.CreateSession(sessionName): tmux new-session -d -s trak makes the session,
\* with the window tmux opens in it
CreateSessionStep(p) ==
    /\ proc[p].pc = "newsession"
    /\ \E ok \in Outcomes(~tmux.session) :
        /\ proc' = [proc EXCEPT ![p] =
                LET rec == Logged(p, "tmux.CreateSession", <<>>, ~tmux.session, ok)
                IN  IF ok THEN [rec EXCEPT !.pc = "window"]
                    ELSE Returned(rec, Err("failed to create session", {}))]
        /\ tmux' = IF ok
                   THEN [tmux EXCEPT !.session = TRUE, !.current = 1,
                            !.windows = <<[name |-> <<"s","h">>, dir |-> <<>>, keys |-> <<>>]>>]
                   ELSE tmux
    /\ UNCHANGED <<ui, tracks, worktrees, devboxes, localBranch, originBranch, unpersisted, halfDone, now, prs, rebaseHead>>

\* windowExists, err := tmux.WindowExists(sessionName, windowName): list-windows'
\* lines compared with the name; "can't find session" reads as "no", any other
\* failure is an error. JumpToTrack returns the error, RunAI drops it and creates
\* the window whenever windowExists is false.
WindowExistsStep(p) ==
    /\ proc[p].pc = "window"
    /\ LET windowName == SanitizeForTmux(proc[p].branch)
           exists == tmux.session /\ WindowsNamed(tmux, windowName) # {}
       IN \E result \in {IF exists THEN "yes" ELSE "no", "error"} :
            LET rec == Logged(p, "tmux.WindowExists", windowName, tmux.session, result # "error")
            IN  proc' = [proc EXCEPT ![p] =
                    IF proc[p].op = "JumpToTrack"
                    THEN IF JumpAfterWindowExists(result) = "done"
                         THEN Returned(rec, Err("failed to check window", {}))
                         ELSE [rec EXCEPT !.pc = JumpAfterWindowExists(result)]
                    ELSE [rec EXCEPT !.pc = IF result = "yes" THEN "keys" ELSE "newwindow"]]
    /\ UNCHANGED <<ui, tracks, worktrees, devboxes, localBranch, originBranch, unpersisted, halfDone, now, prs, rebaseHead, tmux>>

\* tmux.CreateWindow(sessionName, windowName, startDir): startDir is toadPath in
\* RunAI, and in JumpToTrack the path of a worktree track ("" for a devbox track or
\* without path). tmux new-window does not refuse a name in use, and makes the new
\* window the session's current one.
CreateWindowStep(p) ==
    /\ proc[p].pc = "newwindow"
    /\ LET trk == proc[p].trk[1]
           startDir == IF proc[p].op = "RunAI" THEN proc[p].locator
                       ELSE IF trk.type = TrackTypeWorktree /\ trk.path # None THEN trk.path[1]
                       ELSE <<>>
           window == [name |-> SanitizeForTmux(proc[p].branch), dir |-> startDir, keys |-> <<>>]
       IN \E ok \in Outcomes(tmux.session) :
            /\ proc' = [proc EXCEPT ![p] =
                    LET rec == Logged(p, "tmux.CreateWindow", startDir, tmux.session, ok)
                    IN  IF ~ok THEN Returned(rec, Err("failed to create window", {}))
                        ELSE IF proc[p].op = "RunAI" THEN [rec EXCEPT !.pc = "keys"]
                        ELSE IF trk.type = TrackTypeDevbox /\ trk.devbox_name # None
                             THEN [rec EXCEPT !.pc = "ssh"]
                        ELSE [rec EXCEPT !.pc = "switch"]]
            /\ tmux' = IF ok THEN [tmux EXCEPT !.windows = Append(@, window),
                                              !.current = Len(tmux.windows) + 1]
                       ELSE tmux
    /\ UNCHANGED <<ui, tracks, worktrees, devboxes, localBranch, originBranch, unpersisted, halfDone, now, prs, rebaseHead>>

\* sshCmd, err := devbox.GetSSHCommand(*trk.DevboxName): an error, an empty output
\* or the command, here <<"ssh", name>>
GetSSHCommandStep(p) ==
    /\ proc[p].pc = "ssh"
    /\ LET name == proc[p].trk[1].devbox_name[1]
           possible == DevboxExists(devboxes, name)
       IN \E ok \in Outcomes(possible), empty \in BOOLEAN :
            /\ ~ok => ~empty
            /\ proc' = [proc EXCEPT ![p] =
                    [Logged(p, "devbox.GetSSHCommand", name, possible, ok) EXCEPT
                        !.pc = IF ok /\ ~empty THEN "keys" ELSE "switch",
                        !.locator = IF ok /\ ~empty THEN name ELSE @]]
    /\ UNCHANGED <<ui, tracks, worktrees, devboxes, localBranch, originBranch, unpersisted, halfDone, now, prs, rebaseHead, tmux>>

\* tmux.RunInWindow(sessionName, windowName, command), tmux send-keys to a window
\* that the target resolves to: JumpToTrack sends the ssh command and drops the
\* error, RunAI sends "tc <toadPath>" and returns the error
RunInWindowStep(p) ==
    /\ proc[p].pc = "keys"
    /\ LET targets == WindowsNamed(tmux, SanitizeForTmux(proc[p].branch))
           command == <<IF proc[p].op = "RunAI" THEN "tc" ELSE "ssh", proc[p].locator>>
       IN \E ok \in Outcomes(targets # {}) :
            /\ proc' = [proc EXCEPT ![p] =
                    LET rec == Logged(p, "tmux.RunInWindow", command, targets # {}, ok)
                    IN  IF ~ok /\ proc[p].op = "RunAI"
                        THEN Returned(rec, Err("failed to run AI command", {}))
                        ELSE [rec EXCEPT !.pc = "switch"]]
            /\ IF ok THEN \E i \in targets :
                            tmux' = [tmux EXCEPT !.windows[i].keys = Append(@, command)]
               ELSE tmux' = tmux
    /\ UNCHANGED <<ui, tracks, worktrees, devboxes, localBranch, originBranch, unpersisted, halfDone, now, prs, rebaseHead>>

\* if tmux.IsInsideTmux() { return tmux.SwitchToWindow(sessionName, windowName) }
\* else { _ = tmux.SelectWindow(sessionName, windowName); return
\* tmux.AttachSession(sessionName) }: the attached client shows the session's
\* current window
SwitchOrAttachStep(p) ==
    /\ proc[p].pc = "switch"
    /\ LET windowName == SanitizeForTmux(proc[p].branch)
           targets == WindowsNamed(tmux, windowName)
       IN \E ok \in Outcomes(targets # {}), attached \in Outcomes(tmux.session) :
            /\ tmux.inside => attached = tmux.session
            /\ \E i \in IF ok THEN targets ELSE {tmux.current} :
                IF tmux.inside
                THEN /\ proc' = [proc EXCEPT ![p] =
                            Returned(Logged(p, "tmux.SwitchToWindow", windowName, targets # {}, ok),
                                     IF ok THEN NoErr ELSE Err("switch-client", {}))]
                     /\ tmux' = [tmux EXCEPT !.current = i, !.client = IF ok THEN i ELSE @]
                ELSE /\ proc' = [proc EXCEPT ![p] =
                            LET rec == Logged(p, "tmux.SelectWindow", windowName, targets # {}, ok)
                            IN  Returned([rec EXCEPT
                                            !.log = Append(@, Called("tmux.AttachSession", <<>>, attached)),
                                            !.fault = @ \/ (tmux.session /\ ~attached)],
                                         IF attached THEN NoErr ELSE Err("attach-session", {}))]
                     /\ tmux' = [tmux EXCEPT !.current = i, !.client = IF attached THEN i ELSE @]
    /\ UNCHANGED <<ui, tracks, worktrees, devboxes, localBranch, originBranch, unpersisted, halfDone, now, prs, rebaseHead>>

JumpOrRunAIStep(p) ==
    \/ GetTrackStep(p) \/ TouchStep(p) \/ SessionExistsStep(p) \/ CreateSessionStep(p)
    \/ WindowExistsStep(p) \/ CreateWindowStep(p) \/ GetSSHCommandStep(p)
    \/ RunInWindowStep(p) \/ SwitchOrAttachStep(p)

\* the registry and the environments as in InitSync, at time MaxTime, and tmux in
\* either of its states before the first call, no session or session "trak" as
\* new-session makes it; the caller inside tmux or outside
InitJump ==
    /\ \E kinds \in [Branches -> TrackTypes \cup {"none"}] :
        LET w == AfterNewTracks(NumBranches, kinds)
        IN  /\ tracks = w.tracks
            /\ worktrees = w.worktrees
            /\ devboxes = w.devboxes
            /\ localBranch = w.localBranch
    /\ originBranch = OriginAtStart
    /\ proc = [p \in Procs |-> IdleProc]
    /\ unpersisted = {}
    /\ halfDone = FALSE
    /\ ui = UiAtStart
    /\ now = MaxTime
    /\ prs = [b \in Branches |-> NoPR]
    /\ rebaseHead = [b \in Branches |-> NoSHA]
    /\ \E inside \in BOOLEAN, session \in BOOLEAN :
        tmux = [NoTmux EXCEPT
                    !.inside = inside, !.session = session,
                    !.current = IF session THEN 1 ELSE 0,
                    !.windows = IF session
                                THEN <<[name |-> <<"s","h">>, dir |-> <<>>, keys |-> <<>>]>>
                                ELSE <<>>]

NextJump ==
    \E p \in {MainProc} :
        \/ \E b \in Branches : CallJumpOrRunAI(p, "JumpToTrack", b)
        \/ \E b \in Branches : CallJumpOrRunAI(p, "RunAI", b)
        \/ JumpOrRunAIStep(p)
        \/ Return(p)

SpecJump == InitJump /\ [][NextJump]_vars

\* --------------------------------------------------------------- SpecWindow
\* Two branches whose names differ only where SanitizeForTmux writes '_': both are
\* tracked as worktrees, at different commits (so that their slugs differ), and
\* JumpToTrack is called for either.
WindowBranches == {<<"a","_","b">>, <<"a",".","b">>}

WorktreeTrackOf(b, sha) ==
    Track(b, ConfigRemote, sha, TrackTypeWorktree, Some(WorktreePath(GenerateSlug(b, sha))),
          None, Some(0), Some(0))

InitWindow ==
    /\ tracks = DB_InsertTrack(DB_InsertTrack({}, WorktreeTrackOf(<<"a","_","b">>, SHA1), 0),
                               WorktreeTrackOf(<<"a",".","b">>, SHA2), 0)
    /\ worktrees = {[path |-> WorktreePath(GenerateSlug(<<"a","_","b">>, SHA1)), branch |-> <<"a","_","b">>],
                    [path |-> WorktreePath(GenerateSlug(<<"a",".","b">>, SHA2)), branch |-> <<"a",".","b">>]}
    /\ devboxes = {}
    /\ localBranch = [b \in Branches |-> NoSHA]
    /\ originBranch = OriginAtStart
    /\ proc = [p \in Procs |-> IdleProc]
    /\ unpersisted = {}
    /\ halfDone = FALSE
    /\ ui = UiAtStart
    /\ now = MaxTime
    /\ prs = [b \in Branches |-> NoPR]
    /\ rebaseHead = [b \in Branches |-> NoSHA]
    /\ \E inside \in BOOLEAN, session \in BOOLEAN :
        tmux = [NoTmux EXCEPT
                    !.inside = inside, !.session = session,
                    !.current = IF session THEN 1 ELSE 0,
                    !.windows = IF session
                                THEN <<[name |-> <<"s","h">>, dir |-> <<>>, keys |-> <<>>]>>
                                ELSE <<>>]

\* the steps JumpToTrack takes for a worktree track
NextWindow ==
    \E p \in {MainProc} :
        \/ \E b \in WindowBranches : CallJumpOrRunAI(p, "JumpToTrack", b)
        \/ GetTrackStep(p)
        \/ TouchStep(p)
        \/ SessionExistsStep(p)
        \/ CreateSessionStep(p)
        \/ WindowExistsStep(p)
        \/ CreateWindowStep(p)
        \/ SwitchOrAttachStep(p)
        \/ Return(p)

SpecWindow == InitWindow /\ [][NextWindow]_vars

\* ------------------------------------------------------------------ SpecTUI
\* The program's event loop: a key press is handled by Update and the command it
\* returns starts to run; a running command returns its message, which Update
\* handles in turn. The commands run concurrently, so they return in any order.
Without(seq, i) == SubSeq(seq, 1, i - 1) \o SubSeq(seq, i + 1, Len(seq))

KeyPress(k) ==
    /\ ~ui.ended
    /\ Len(ui.running) < MaxInFlight
    /\ LET u == Update(ui.m, KeyMsg(k))
       IN  /\ Len(u.m.input) <= MaxInput
           /\ ui' = [ui EXCEPT !.m = u.m, !.running = @ \o u.cmds]
    /\ UNCHANGED <<tracks, worktrees, devboxes, localBranch, originBranch, proc, unpersisted,
                   halfDone, now, prs, rebaseHead, tmux>>

Deliver(i) ==
    /\ ~ui.ended
    /\ i \in DOMAIN ui.running
    /\ ui.running[i].name # "tea.Quit"
    /\ \E msg \in MsgsOf(ui.running[i]) :
        LET u == Update(ui.m, msg)
        IN  ui' = [ui EXCEPT !.m = u.m,
                             !.running = Without(@, i) \o u.cmds \o SequencedQuit(ui.running[i])]
    /\ UNCHANGED <<tracks, worktrees, devboxes, localBranch, originBranch, proc, unpersisted,
                   halfDone, now, prs, rebaseHead, tmux>>

\* the terminal is resized
Resize ==
    /\ ~ui.ended
    /\ ui' = [ui EXCEPT !.m = Update(ui.m, WindowSizeMsg).m]
    /\ UNCHANGED <<tracks, worktrees, devboxes, localBranch, originBranch, proc, unpersisted,
                   halfDone, now, prs, rebaseHead, tmux>>

\* tea.Quit returns its message and Run returns
Quit ==
    /\ ~ui.ended
    /\ \E i \in DOMAIN ui.running : ui.running[i].name = "tea.Quit"
    /\ ui' = [ui EXCEPT !.ended = TRUE]
    /\ UNCHANGED <<tracks, worktrees, devboxes, localBranch, originBranch, proc, unpersisted,
                   halfDone, now, prs, rebaseHead, tmux>>

NextTUI ==
    \/ \E k \in Keys : KeyPress(k)
    \/ \E i \in 1..(MaxInFlight + 1) : Deliver(i)
    \/ Resize
    \/ Quit

SpecTUI == Init /\ [][NextTUI]_vars

\* The first call of a caller, in each of the worlds of InitJump: one of the four
\* operations that begin by reading the track.
NextFirst ==
    \E p \in {MainProc} :
        \/ \E b \in Branches : CallJumpOrRunAI(p, "JumpToTrack", b)
        \/ \E b \in Branches : CallJumpOrRunAI(p, "RunAI", b)
        \/ \E b \in Branches : CallSyncTrack(p, b)
        \/ \E b \in Branches, deleteRemote \in BOOLEAN : CallDeleteTrack(p, b, deleteRemote)
        \/ JumpOrRunAIStep(p)
        \/ SyncTrackStep(p)
        \/ DeleteTrackStep(p)

SpecFirst == InitJump /\ [][NextFirst]_vars

\* ---------------------------------------------------------------- SpecStale
\* GitStatus.String: "dirty", "clean", or the arrows with their counts (here ^ and v)
GitStatusString(s) ==
    IF ~s.Clean THEN <<"dirty">>
    ELSE IF ~s.Ahead /\ ~s.Behind THEN <<"clean">>
    ELSE (IF s.Ahead THEN <<"^", s.AheadCount>> ELSE <<>>)
         \o (IF s.Behind THEN <<"v", s.BehindCount>> ELSE <<>>)

\* RefreshTrackStatus of tracks made at time 0, of which some have not been accessed
\* since (last_accessed NULL), when the clock reads seven days or eight
InitStale ==
    /\ \E kinds \in [Branches -> TrackTypes \cup {"none"}],
          accessed \in [Branches -> BOOLEAN] :
        LET w == AfterNewTracks(NumBranches, kinds)
        IN  /\ tracks = {IF accessed[r.branch] THEN r ELSE [r EXCEPT !.last_accessed = None]
                          : r \in w.tracks}
            /\ worktrees = w.worktrees
            /\ devboxes = w.devboxes
            /\ localBranch = w.localBranch
    /\ originBranch = OriginAtStart
    /\ proc = [p \in Procs |-> IdleProc]
    /\ unpersisted = {}
    /\ halfDone = FALSE
    /\ ui = UiAtStart
    /\ now \in {StaleDuration, StaleDuration + 1}
    /\ prs = [b \in Branches |-> NoPR]
    /\ rebaseHead = [b \in Branches |-> NoSHA]
    /\ tmux = NoTmux

NextStale ==
    \E p \in {MainProc} :
        \/ \E trk \in tracks : CallRefreshTrackStatus(p, trk)
        \/ RefreshTrackStatusStep(p)
        \/ Return(p)
        \/ \E b \in Branches : Commit(b)

SpecStale == InitStale /\ [][NextStale]_vars

\* --------------------------------------------------------------- SpecCreate
\* The NewTrack functions called with a branch name that Slugify turns into the
\* empty string ("_" is a branch name git accepts), beside one it does not.
CreateBranches == {BranchPool[1], <<"_">>}

InitCreate ==
    /\ tracks = {}
    /\ worktrees = {}
    /\ devboxes = {}
    /\ localBranch = [b \in CreateBranches |-> NoSHA]
    /\ originBranch = [b \in CreateBranches |-> IF b = BranchPool[1] THEN SHA2 ELSE NoSHA]
    /\ proc = [p \in Procs |-> IdleProc]
    /\ unpersisted = {}
    /\ halfDone = FALSE
    /\ ui = UiAtStart
    /\ now = 0
    /\ prs = [b \in CreateBranches |-> NoPR]
    /\ rebaseHead = [b \in CreateBranches |-> NoSHA]
    /\ tmux = NoTmux

NextCreate ==
    \E p \in {MainProc} :
        \/ \E b \in CreateBranches : CallNewTrackWorktree(p, b)
        \/ \E b \in CreateBranches : CallNewTrackDevbox(p, b)
        \/ NewTrackWorktreeStep(p)
        \/ NewTrackDevboxStep(p)
        \/ Return(p)

SpecCreate == InitCreate /\ [][NextCreate]_vars

\* ------------------------------------------------------------------ claims
\* no engine operation is in progress
Quiescent == \A p \in Procs : proc[p].pc \in {"idle", "done"}

\* the environment named by the locator of row r exists among wts and dbs
EnvExistsIn(wts, dbs, r) ==
    \/ r.type = TrackTypeWorktree /\ r.path # None /\ \E w \in wts : w.path = r.path[1]
    \/ r.type = TrackTypeDevbox /\ r.devbox_name # None /\ DevboxExists(dbs, r.devbox_name[1])

\* a worktree at this path, or a devbox of this name, exists
LocatorExists(loc) == (\E w \in worktrees : w.path = loc) \/ DevboxExists(devboxes, loc)

RowsHaveEnv == \A r \in tracks : EnvExistsIn(worktrees, devboxes, r)

EnvsHaveRow ==
    /\ \A w \in worktrees : \E r \in tracks :
            r.type = TrackTypeWorktree /\ r.branch = w.branch /\ r.path = Some(w.path)
    /\ \A d \in devboxes : \E r \in tracks :
            r.type = TrackTypeDevbox /\ r.branch = d.branch /\ r.devbox_name = Some(d.name)

\* the log holds `call` with result ok; the log holds `call`
HasCall(log, call, ok) == \E i \in DOMAIN log : log[i].call = call /\ log[i].ok = ok
Made(log, call) == \E i \in DOMAIN log : log[i].call = call

NewTrackOps == {"NewTrackWorktree", "NewTrackDevbox"}
ProvisionCall(op) == IF op = "NewTrackWorktree" THEN "git.WorktreeAdd" ELSE "devbox.Create"
DeprovisionCall(type) == IF type \in {"NewTrackWorktree", TrackTypeWorktree}
                         THEN "git.WorktreeRemove" ELSE "devbox.Delete"

\* C1 as stated: whenever no operation is in progress, a row exists iff its
\* environment exists, whatever step failed in the calls before.
C1_IffAfterAnyFailure == Quiescent => RowsHaveEnv /\ EnvsHaveRow

\* C1: whenever no operation is in progress, and no compensating deprovision and no
\* row removal of DeleteTrack has failed so far, every row's environment exists and
\* every worktree and devbox is the environment of a row of its branch.
C1_IffUnlessHalfDone == Quiescent /\ ~halfDone => RowsHaveEnv /\ EnvsHaveRow

\* a NewTrack call whose insert failed has returned after a successful cleanup, a
\* track of another call is in the registry, and nothing was ever left half done
C1_Witness ==
    /\ ~halfDone
    /\ proc[MainProc].pc = "done"
    /\ proc[MainProc].op \in NewTrackOps
    /\ HasCall(proc[MainProc].log, "db.InsertTrack", FALSE)
    /\ HasCall(proc[MainProc].log, DeprovisionCall(proc[MainProc].op), TRUE)
    /\ tracks # {}

C3_EnvGoneAfterFailedInsert ==
    (/\ proc[MainProc].pc = "done"
     /\ proc[MainProc].op \in NewTrackOps
     /\ HasCall(proc[MainProc].log, "db.InsertTrack", FALSE))
        => tracks = proc[MainProc].rows0 /\ ~LocatorExists(proc[MainProc].locator)

\* C3: when the insert failed, the call's last step before returning the error is
\* the removal of the environment it created, no row was added, and when that
\* removal succeeded the environment no longer exists.
C3_CleanupAfterFailedInsert ==
    (/\ proc[MainProc].pc = "done"
     /\ proc[MainProc].op \in NewTrackOps
     /\ HasCall(proc[MainProc].log, "db.InsertTrack", FALSE))
        => LET log == proc[MainProc].log
               last == log[Len(log)]
           IN  /\ tracks = proc[MainProc].rows0
               /\ proc[MainProc].err # NoErr
               /\ last.call = DeprovisionCall(proc[MainProc].op)
               /\ last.arg = proc[MainProc].locator
               /\ last.ok => ~LocatorExists(proc[MainProc].locator)

\* NewTrackDevbox returned after a failed insert and a successful devbox.Delete
C3_Witness ==
    /\ proc[MainProc].pc = "done"
    /\ proc[MainProc].op = "NewTrackDevbox"
    /\ HasCall(proc[MainProc].log, "db.InsertTrack", FALSE)
    /\ HasCall(proc[MainProc].log, "devbox.Delete", TRUE)

\* C4: in every state of the registry, after any sequence of InsertTrack,
\* UpdateTrack, DeleteTrack, UpdateLastAccessed and UpdateHeadSHA calls, no two
\* rows have the same (remote_url, branch).
C4_OneRowPerRemoteBranch ==
    \A r1, r2 \in tracks : r1.remote_url = r2.remote_url /\ r1.branch = r2.branch => r1 = r2

\* an InsertTrack for a (remote_url, branch) already in the table was rejected, and
\* the table holds two rows of one branch on two remotes
C4_Witness ==
    /\ proc[MainProc].op = "DB.InsertTrack"
    /\ "UNIQUE constraint failed" \in proc[MainProc].err.names
    /\ \E r1, r2 \in tracks : r1.branch = r2.branch /\ r1.remote_url # r2.remote_url

\* C5: in every NewTrack call the insert is attempted only after the creation of
\* the worktree or devbox succeeded, and the environment exists when the insert is
\* attempted; when the creation fails the call returns an error having made no
\* insert and no removal call, and the registry is as it was.
C5_ProvisionBeforePersist ==
    LET P == proc[MainProc]
    IN  P.op \in NewTrackOps =>
          /\ \A i \in DOMAIN P.log : P.log[i].call = "db.InsertTrack" =>
                \E j \in 1..(i - 1) : P.log[j].call = ProvisionCall(P.op) /\ P.log[j].ok
          /\ P.pc \in {"wt_insert", "dbx_insert"} => LocatorExists(P.locator)
          /\ HasCall(P.log, ProvisionCall(P.op), FALSE) =>
                /\ P.pc = "done"
                /\ P.err # NoErr
                /\ tracks = P.rows0
                /\ ~Made(P.log, "db.InsertTrack")
                /\ ~Made(P.log, DeprovisionCall(P.op))

\* a NewTrackWorktree call returned because git worktree add failed
C5_Witness ==
    /\ proc[MainProc].pc = "done"
    /\ proc[MainProc].op = "NewTrackWorktree"
    /\ HasCall(proc[MainProc].log, "git.WorktreeAdd", FALSE)

\* C6: a step that removes a row from the registry is taken only after a successful
\* removal of the environment in the same DeleteTrack call, and leads to a state in
\* which the environment the row described does not exist.
C6_DeprovisionBeforeUnpersist ==
    [][\A r \in tracks : DB_GetTrack(tracks', r.remote_url, r.branch) = None =>
            /\ ~EnvExistsIn(worktrees', devboxes', r)
            /\ HasCall(proc[MainProc].log, DeprovisionCall(r.type), TRUE)]_vars

\* DeleteTrack removed the row of a worktree track
C6_Witness ==
    /\ proc[MainProc].op = "DeleteTrack"
    /\ HasCall(proc[MainProc].log, "git.WorktreeRemove", TRUE)
    /\ HasCall(proc[MainProc].log, "db.DeleteTrack", TRUE)

\* C7: when git worktree remove or devbox delete fails in DeleteTrack, the call
\* returns an error, the registry is as it was before the call, and neither the
\* deletion of the remote branch nor the deletion of the row is attempted.
C7_DeprovisionFailedAborts ==
    LET P == proc[MainProc]
    IN  (/\ P.op = "DeleteTrack"
         /\ \/ HasCall(P.log, "git.WorktreeRemove", FALSE)
            \/ HasCall(P.log, "devbox.Delete", FALSE))
            => /\ P.pc = "done"
               /\ P.err # NoErr
               /\ tracks = P.rows0
               /\ ~Made(P.log, "git.PushDelete")
               /\ ~Made(P.log, "db.DeleteTrack")

\* DeleteTrack with deleteRemote returned because the removal of an existing
\* environment failed
C7_Witness ==
    /\ proc[MainProc].pc = "done"
    /\ proc[MainProc].op = "DeleteTrack"
    /\ proc[MainProc].deleteRemote
    /\ proc[MainProc].fault
    /\ \/ HasCall(proc[MainProc].log, "git.WorktreeRemove", FALSE)
       \/ HasCall(proc[MainProc].log, "devbox.Delete", FALSE)

\* C8: a DeleteTrack for a branch whose last DeleteTrack removed the environment and
\* failed to remove the row, in which no call fails for a reason of its own,
\* returns success and leaves no row of the branch.
C8_RetryRemovesRow ==
    LET P == proc[MainProc]
    IN  P.pc = "done" /\ P.op = "DeleteTrack" /\ P.retry /\ ~P.fault
            => P.err = NoErr /\ DB_GetTrack(tracks, ConfigRemote, P.branch) = None

\* C9: when the removal after a failed insert fails, the error returned names the
\* locator of the environment left behind and differs from the error returned when
\* the removal succeeded.
C9_FailedCleanupNamesLocator ==
    LET P == proc[MainProc]
    IN  (/\ P.pc = "done"
         /\ P.op \in NewTrackOps
         /\ HasCall(P.log, "db.InsertTrack", FALSE)
         /\ HasCall(P.log, DeprovisionCall(P.op), FALSE))
            => /\ P.locator \in P.err.names
               /\ P.err # RecordFailedErr(P.locator, TRUE)

\* C10: when DeleteTrack returns success, GetTrack of the branch returns no row and
\* the worktree or devbox of the track it deleted does not exist.
C10_DeletedIsAbsent ==
    LET P == proc[MainProc]
    IN  P.pc = "done" /\ P.op = "DeleteTrack" /\ P.err = NoErr
            => /\ DB_GetTrack(tracks, ConfigRemote, P.branch) = None
               /\ ~EnvExistsIn(worktrees, devboxes, P.trk[1])

\* DeleteTrack of a devbox track returned success
C10_Witness ==
    /\ proc[MainProc].pc = "done"
    /\ proc[MainProc].op = "DeleteTrack"
    /\ proc[MainProc].err = NoErr
    /\ proc[MainProc].trk # None
    /\ proc[MainProc].trk[1].type = TrackTypeDevbox

\* C11: in DeleteTrack with deleteRemote, a failed deletion of the remote branch
\* does not abort the call: the deletion of the row is attempted next, and when it
\* succeeds the call returns success and the row is gone. Without deleteRemote no
\* deletion of the remote branch is attempted.
C11_PushDeleteFailureIsWarning ==
    LET P == proc[MainProc]
    IN  P.op = "DeleteTrack" =>
          /\ ~P.deleteRemote => ~Made(P.log, "git.PushDelete")
          /\ HasCall(P.log, "git.PushDelete", FALSE) =>
                /\ P.pc \in {"del_db", "done"}
                /\ P.pc = "done" => Made(P.log, "db.DeleteTrack")
                /\ P.pc = "done" /\ HasCall(P.log, "db.DeleteTrack", TRUE) =>
                        /\ P.err = NoErr
                        /\ DB_GetTrack(tracks, ConfigRemote, P.branch) = None

\* DeleteTrack returned success after git push --delete failed
C11_Witness ==
    /\ proc[MainProc].pc = "done"
    /\ proc[MainProc].op = "DeleteTrack"
    /\ proc[MainProc].deleteRemote
    /\ HasCall(proc[MainProc].log, "git.PushDelete", FALSE)
    /\ proc[MainProc].err = NoErr
    /\ proc[MainProc].rows0 # tracks

\* the step of SyncTrack named call succeeded / failed in the call of MainProc
SyncDid(call) == HasCall(proc[MainProc].log, call, TRUE)
SyncFailed(call) == HasCall(proc[MainProc].log, call, FALSE)

\* the row of the track SyncTrack read, as the registry has it now
SyncedRow == DB_GetTrack(tracks, ConfigRemote, proc[MainProc].branch)[1]

\* C12: when git.Rebase reports a conflict, SyncTrack returns without error a result
\* with HasConflicts set and ConflictsPath the track's non-empty path, neither
\* Rebased nor Pushed; it makes no push, no pull-request lookup or creation and no
\* head_sha update, and the registry is as it was.
C12_ConflictStopsSync ==
    LET P == proc[MainProc]
    IN  P.op = "SyncTrack" /\ P.conflicts =>
          /\ P.pc = "done"
          /\ P.err = NoErr
          /\ P.result # None
          /\ P.result[1].HasConflicts
          /\ P.result[1].ConflictsPath = P.trk[1].path[1]
          /\ P.result[1].ConflictsPath # <<>>
          /\ ~P.result[1].Rebased /\ ~P.result[1].Pushed /\ ~P.result[1].PRCreated
          /\ ~Made(P.log, "git.PushForce")
          /\ ~Made(P.log, "github.GetPRForBranch")
          /\ ~Made(P.log, "github.CreatePR")
          /\ ~Made(P.log, "db.UpdateHeadSHA")
          /\ tracks = P.rows0

\* SyncTrack returned the conflict of a rebase begun in this call
C12_Witness ==
    /\ proc[MainProc].op = "SyncTrack"
    /\ proc[MainProc].pc = "done"
    /\ proc[MainProc].conflicts
    /\ rebaseHead[proc[MainProc].branch] # NoSHA
    /\ ~proc[MainProc].fault

\* fetch, default branch, rebase without conflict and push succeeded
SyncMainStepsDid ==
    /\ proc[MainProc].op = "SyncTrack"
    /\ proc[MainProc].pc = "done"
    /\ SyncDid("git.Fetch") /\ SyncDid("git.GetDefaultBranch")
    /\ SyncDid("git.Rebase") /\ ~proc[MainProc].conflicts
    /\ SyncDid("git.PushForce")

SyncResultIsRebasedPushed ==
    /\ proc[MainProc].err = NoErr
    /\ proc[MainProc].result # None
    /\ proc[MainProc].result[1].Rebased
    /\ proc[MainProc].result[1].Pushed
    /\ ~proc[MainProc].result[1].HasConflicts

\* C13 as stated: whenever fetch, default-branch resolution, rebase and push
\* succeed, the result is rebased, pushed, no conflict, and the persisted head_sha
\* equals the worktree's HEAD.
C13_HeadSHAAlwaysUpdated ==
    SyncMainStepsDid =>
        /\ SyncResultIsRebasedPushed
        /\ SyncedRow.head_sha = HeadAt(worktrees, localBranch, rebaseHead, proc[MainProc].locator)

\* C13: whenever fetch, default-branch resolution, rebase and push succeed, the
\* result is rebased, pushed, no conflict; and when reading HEAD and the update of
\* head_sha succeeded too, the persisted head_sha equals the worktree's HEAD after
\* the rebase, which origin's branch equals as well.
C13_HeadSHAUpdatedWhenWritten ==
    SyncMainStepsDid =>
        /\ SyncResultIsRebasedPushed
        /\ originBranch[proc[MainProc].branch] = localBranch[proc[MainProc].branch]
        /\ SyncDid("git.GetHeadSHA") /\ SyncDid("db.UpdateHeadSHA") =>
              SyncedRow.head_sha = HeadAt(worktrees, localBranch, rebaseHead, proc[MainProc].locator)

\* a SyncTrack in which no call failed moved the branch and recorded the new tip
C13_Witness ==
    /\ SyncMainStepsDid
    /\ ~proc[MainProc].fault
    /\ SyncDid("db.UpdateHeadSHA")
    /\ SyncedRow.head_sha # proc[MainProc].trk[1].head_sha
    /\ SyncedRow.head_sha = localBranch[proc[MainProc].branch]

\* C14: when the push fails after the rebase, SyncTrack returns an error and no
\* result, does not update head_sha, leaves the registry as it was, and makes no
\* pull-request lookup or creation.
C14_PushFailedIsFatal ==
    LET P == proc[MainProc]
    IN  P.op = "SyncTrack" /\ SyncFailed("git.PushForce") =>
          /\ P.pc = "done"
          /\ P.err # NoErr
          /\ P.result = None
          /\ tracks = P.rows0
          /\ ~Made(P.log, "git.GetHeadSHA")
          /\ ~Made(P.log, "db.UpdateHeadSHA")
          /\ ~Made(P.log, "github.GetPRForBranch")
          /\ ~Made(P.log, "github.CreatePR")

\* SyncTrack returned the failure of a push that followed a successful rebase
C14_Witness ==
    /\ proc[MainProc].op = "SyncTrack"
    /\ proc[MainProc].pc = "done"
    /\ SyncDid("git.Rebase")
    /\ SyncFailed("git.PushForce")
    /\ proc[MainProc].err = Err("failed to push", {})

\* C15: after rebase and push succeeded, a failure of the pull-request lookup or of
\* the pull-request creation ends SyncTrack with success: no error, a result that
\* is rebased and pushed, PRCreated false and no PR number.
C15_PRFailureIsNotFatal ==
    LET P == proc[MainProc]
    IN  P.op = "SyncTrack" /\ (SyncFailed("github.GetPRForBranch") \/ SyncFailed("github.CreatePR")) =>
          /\ P.pc = "done"
          /\ P.err = NoErr
          /\ P.result # None
          /\ P.result[1].Rebased /\ P.result[1].Pushed
          /\ ~P.result[1].PRCreated
          /\ P.result[1].PRNumber = 0
          /\ SyncFailed("github.GetPRForBranch") => ~Made(P.log, "github.CreatePR")

\* SyncTrack returned success after gh pr create failed
C15_Witness ==
    /\ proc[MainProc].op = "SyncTrack"
    /\ proc[MainProc].pc = "done"
    /\ SyncDid("github.GetPRForBranch")
    /\ SyncFailed("github.CreatePR")
    /\ proc[MainProc].err = NoErr

\* C17: SyncTrack of a devbox track returns the "not supported for devbox tracks"
\* error and no result, having made no call but the read of the track: no git
\* call, no gh call, no registry write; the registry is as it was.
C17_SyncDevboxUnsupported ==
    LET P == proc[MainProc]
    IN  (/\ P.op = "SyncTrack"
         /\ P.trk # None
         /\ P.trk[1].type = TrackTypeDevbox)
            => /\ P.pc = "done"
               /\ P.err = Err("sync is not supported for devbox tracks", {})
               /\ P.result = None
               /\ P.log = <<Called("db.GetTrack", P.branch, TRUE)>>
               /\ tracks = P.rows0

\* SyncTrack of a devbox track returned
C17_Witness ==
    /\ proc[MainProc].op = "SyncTrack"
    /\ proc[MainProc].pc = "done"
    /\ proc[MainProc].trk # None
    /\ proc[MainProc].trk[1].type = TrackTypeDevbox
    /\ DevboxExists(devboxes, proc[MainProc].trk[1].devbox_name[1])

\* a SyncTrack pushed and failed to update head_sha, and the RefreshTrackStatus of
\* its track that followed has returned, having read HEAD and had no registry failure
RefreshedAfterFailedUpdate ==
    /\ proc[MainProc].op = "SyncTrack"
    /\ proc[MainProc].pc = "done"
    /\ SyncDid("git.PushForce")
    /\ SyncFailed("db.UpdateHeadSHA")
    /\ proc[Refresher].op = "RefreshTrackStatus"
    /\ proc[Refresher].pc = "done"
    /\ HasCall(proc[Refresher].log, "git.GetHeadSHA", TRUE)
    /\ ~HasCall(proc[Refresher].log, "db.UpdateHeadSHA", FALSE)

\* C16 as stated: SyncTrack succeeds although the update of head_sha failed, and
\* the next RefreshTrackStatus of the track reports a mismatch and makes the
\* persisted head_sha the worktree's HEAD.
C16_RefreshReportsDrift ==
    /\ proc[MainProc].op = "SyncTrack" /\ proc[MainProc].pc = "done" /\ SyncFailed("db.UpdateHeadSHA")
            => proc[MainProc].err = NoErr
    /\ RefreshedAfterFailedUpdate =>
            /\ proc[Refresher].result[1].SHAMismatch
            /\ SyncedRow.head_sha = localBranch[proc[MainProc].branch]

\* C16: SyncTrack succeeds although the update of head_sha failed, and after the
\* next RefreshTrackStatus of the track the persisted head_sha is the worktree's
\* HEAD, the tip after the rebase; the refresh reports a mismatch exactly when
\* that HEAD differs from the head_sha the track had.
C16_RefreshCorrectsHeadSHA ==
    /\ proc[MainProc].op = "SyncTrack" /\ proc[MainProc].pc = "done" /\ SyncFailed("db.UpdateHeadSHA")
            => /\ proc[MainProc].err = NoErr
               /\ proc[MainProc].result # None
               /\ proc[MainProc].result[1].Rebased /\ proc[MainProc].result[1].Pushed
    /\ RefreshedAfterFailedUpdate =>
            /\ proc[Refresher].err = NoErr
            /\ SyncedRow.head_sha = localBranch[proc[MainProc].branch]
            /\ proc[Refresher].result[1].SHAMismatch
                    = (localBranch[proc[MainProc].branch] # proc[Refresher].trk[1].head_sha)

\* the rebase moved the branch, the update failed, the refresh reported the mismatch
\* and recorded the new tip
C16_Witness ==
    /\ RefreshedAfterFailedUpdate
    /\ proc[Refresher].result[1].SHAMismatch
    /\ HasCall(proc[Refresher].log, "db.UpdateHeadSHA", TRUE)
    /\ SyncedRow.head_sha # proc[MainProc].trk[1].head_sha


\* C18: a RefreshTrackStatus of a worktree track that read HEAD and met no registry
\* failure reports a mismatch and leaves the track's persisted head_sha equal to
\* HEAD when HEAD differed from the track's head_sha, and reports none and makes no
\* registry write when they were equal.
C18_DriftSetsHeadSHA ==
    LET P == proc[MainProc]
    IN  (/\ P.op = "RefreshTrackStatus"
         /\ P.pc = "done"
         /\ P.trk[1].type = TrackTypeWorktree
         /\ HasCall(P.log, "git.GetHeadSHA", TRUE)
         /\ ~HasCall(P.log, "db.UpdateHeadSHA", FALSE))
            => LET head == HeadAt(worktrees, localBranch, rebaseHead, P.locator)
               IN  IF head # P.trk[1].head_sha
                   THEN /\ P.result[1].SHAMismatch
                        /\ \A r \in SameTrack(tracks, P.trk[1]) : r.head_sha = head
                   ELSE /\ ~P.result[1].SHAMismatch
                        /\ ~Made(P.log, "db.UpdateHeadSHA")
                        /\ tracks = P.rows0

\* the calls of RefreshTrackStatus that only read
ReadOnlyCalls ==
    {"git.IsDirty", "git.GetDefaultBranch", "git.AheadBehind", "git.GetHeadSHA",
     "github.GetPRForBranch", "db.UpdateHeadSHA"}

\* C19: in a RefreshTrackStatus the registry keeps its rows, each as it was except
\* for the head_sha of the refreshed track, and the only calls made are queries
\* and the update of head_sha.
C19_RefreshFrame ==
    LET P == proc[MainProc]
    IN  P.op = "RefreshTrackStatus" =>
          /\ Cardinality(tracks) = Cardinality(P.rows0)
          /\ \A r \in P.rows0 :
                IF r.remote_url = P.trk[1].remote_url /\ r.branch = P.trk[1].branch
                THEN \E q \in tracks : [q EXCEPT !.head_sha = r.head_sha] = r
                ELSE r \in tracks
          /\ \A i \in DOMAIN P.log : P.log[i].call \in ReadOnlyCalls

\* the calls ListTracksWithStatus made to the code review host, in order
PRLookups(log) == SelectSeq(log, LAMBDA c : c.call = "github.GetPRForBranch")

\* C20: when the registry could be listed, ListTracksWithStatus returns without
\* error, whatever git and gh calls failed, one entry for each row of the registry
\* in the order of the listing, each with a status; an entry whose pull-request
\* lookup failed has no PR, no CI and no review in its status.
C20_StatusNeverFails ==
    LET P == proc[MainProc]
    IN  (/\ P.op = "ListTracksWithStatus"
         /\ P.pc = "done"
         /\ HasCall(P.log, "db.ListTracks", TRUE))
            => /\ P.err = NoErr
               /\ P.result # None
               /\ Len(P.result[1]) = Cardinality(P.rows0)
               /\ [i \in DOMAIN P.result[1] |-> P.result[1][i].Track] = DB_ListTracks(P.rows0)
               /\ Len(PRLookups(P.log)) = Len(P.result[1])
               /\ \A i \in DOMAIN P.result[1] :
                    ~PRLookups(P.log)[i].ok =>
                        /\ P.result[1][i].Status.PR = None
                        /\ P.result[1][i].Status.CI = None
                        /\ P.result[1][i].Status.Review = None

\* ListTracksWithStatus returned two entries or more although every git and gh
\* call of it failed
C20_Witness ==
    /\ proc[MainProc].op = "ListTracksWithStatus"
    /\ proc[MainProc].pc = "done"
    /\ proc[MainProc].err = NoErr
    /\ Len(proc[MainProc].entries) >= 2
    /\ \A i \in DOMAIN proc[MainProc].log :
            proc[MainProc].log[i].call # "db.ListTracks" => ~proc[MainProc].log[i].ok
    /\ \E i \in DOMAIN proc[MainProc].entries :
            proc[MainProc].entries[i].Track.type = TrackTypeWorktree

\* the calls `call` in a log
CallsOf(log, call) == SelectSeq(log, LAMBDA c : c.call = call)

\* the entries of a listing that are of the given type
EntriesOfType(entries, type) == {i \in DOMAIN entries : entries[i].Track.type = type}

\* C21: in a listing, the refresh of a devbox track makes no git query (each git
\* query is made once for each worktree track at most), reports no mismatch,
\* updates no head_sha (one update for each worktree track that reported a
\* mismatch), and its git status differs, as a value and as rendered, from the git
\* status of every worktree track whose working copy was found dirty.
C21_DevboxHasNoGitStatus ==
    LET P == proc[MainProc]
        worktreeEntries == EntriesOfType(P.entries, TrackTypeWorktree)
    IN  (P.op = "ListTracksWithStatus" /\ P.pc = "done" /\ P.err = NoErr) =>
          /\ Len(CallsOf(P.log, "git.IsDirty")) = Cardinality(worktreeEntries)
          /\ Len(CallsOf(P.log, "git.GetDefaultBranch")) = Cardinality(worktreeEntries)
          /\ Len(CallsOf(P.log, "git.GetHeadSHA")) = Cardinality(worktreeEntries)
          /\ Len(CallsOf(P.log, "git.AheadBehind")) <= Cardinality(worktreeEntries)
          /\ Len(CallsOf(P.log, "db.UpdateHeadSHA"))
                = Cardinality({j \in worktreeEntries : P.entries[j].Status.SHAMismatch})
          /\ \A i \in EntriesOfType(P.entries, TrackTypeDevbox) :
                /\ ~P.entries[i].Status.SHAMismatch
                /\ \A j \in worktreeEntries :
                    (/\ \E k \in DOMAIN P.log :
                            P.log[k] = Called("git.IsDirty", P.entries[j].Track.path[1], TRUE)
                     /\ ~P.entries[j].Status.GitStatus.Clean)
                        => /\ P.entries[i].Status.GitStatus # P.entries[j].Status.GitStatus
                           /\ GitStatusString(P.entries[i].Status.GitStatus)
                                # GitStatusString(P.entries[j].Status.GitStatus)

\* C22: RefreshTrackStatus returns without error, and IsStale is true exactly when
\* last_accessed is set and more than seven days before the clock, whatever the
\* git and gh calls returned.
C22_StaleIffOverSevenDays ==
    LET P == proc[MainProc]
    IN  (P.op = "RefreshTrackStatus" /\ P.pc = "done") =>
          /\ P.err = NoErr
          /\ P.result[1].IsStale
                = (P.trk[1].last_accessed # None /\ now - P.trk[1].last_accessed[1] > 7)

\* a track last accessed eight days before was reported stale although a git or gh
\* call failed
C22_Witness ==
    /\ proc[MainProc].op = "RefreshTrackStatus"
    /\ proc[MainProc].pc = "done"
    /\ proc[MainProc].fault
    /\ proc[MainProc].trk[1].last_accessed = Some(0)
    /\ now = 8
    /\ proc[MainProc].result[1].IsStale

\* the calls of a log that change the multiplexer, in order
TmuxChanges(log) ==
    [i \in DOMAIN SelectSeq(log, LAMBDA c : c.call \in
                    {"tmux.CreateSession", "tmux.CreateWindow", "tmux.RunInWindow",
                     "tmux.SwitchToWindow", "tmux.SelectWindow", "tmux.AttachSession"}) |->
        SelectSeq(log, LAMBDA c : c.call \in
                    {"tmux.CreateSession", "tmux.CreateWindow", "tmux.RunInWindow",
                     "tmux.SwitchToWindow", "tmux.SelectWindow", "tmux.AttachSession"})[i].call]

\* the switch or the select and attach alone
OnlySwitchOrAttach ==
    IF tmux.inside THEN <<"tmux.SwitchToWindow">> ELSE <<"tmux.SelectWindow", "tmux.AttachSession">>

\* the call of the caller is `op`, and it began when session "trak" had the window
\* of the call's branch
BeganWithWindow(op) ==
    /\ proc[MainProc].op = op
    /\ proc[MainProc].tmux0.session
    /\ WindowsNamed(proc[MainProc].tmux0, SanitizeForTmux(proc[MainProc].branch)) # {}

\* the call left the session and its windows, names, directories and commands
\* sent, as they were
WindowsUntouched ==
    /\ tmux.session
    /\ tmux.windows = proc[MainProc].tmux0.windows
    /\ ~HasCall(proc[MainProc].log, "tmux.CreateSession", TRUE)
    /\ ~HasCall(proc[MainProc].log, "tmux.CreateWindow", TRUE)
    /\ ~HasCall(proc[MainProc].log, "tmux.RunInWindow", TRUE)

\* C23: a JumpToTrack that begins when the session and the window of the branch
\* exist creates no session and no window, and sends no command; when it succeeds
\* the only calls it made that change the multiplexer are the switch (inside tmux)
\* or the select and the attach (outside).
C23_JumpIdempotent ==
    BeganWithWindow("JumpToTrack") =>
        /\ WindowsUntouched
        /\ ~Made(proc[MainProc].log, "tmux.CreateWindow")
        /\ ~Made(proc[MainProc].log, "tmux.RunInWindow")
        /\ (proc[MainProc].pc = "done" /\ proc[MainProc].err = NoErr)
                => TmuxChanges(proc[MainProc].log) = OnlySwitchOrAttach

\* a second JumpToTrack of a branch succeeded, with the window of the first
C23_Witness ==
    /\ BeganWithWindow("JumpToTrack")
    /\ proc[MainProc].pc = "done"
    /\ proc[MainProc].err = NoErr
    /\ tmux.client \in WindowsNamed(tmux, SanitizeForTmux(proc[MainProc].branch))

\* C24: a RunAI that begins when the window of the branch exists creates no window
\* and sends no command to it; when it succeeds the only calls it made that change
\* the multiplexer are the switch or the select and the attach.
C24_RunAIIdempotent ==
    BeganWithWindow("RunAI") =>
        /\ WindowsUntouched
        /\ (proc[MainProc].pc = "done" /\ proc[MainProc].err = NoErr)
                => TmuxChanges(proc[MainProc].log) = OnlySwitchOrAttach

\* the position in the log of the first call `call` that succeeded (0: none)
FirstOk(log, call) ==
    IF HasCall(log, call, TRUE)
    THEN CHOOSE i \in DOMAIN log :
            /\ log[i].call = call /\ log[i].ok
            /\ \A j \in 1..(i - 1) : ~(log[j].call = call /\ log[j].ok)
    ELSE 0

\* C25: after a JumpToTrack or RunAI that succeeded the track's last_accessed is
\* the time of the call; and when the window of the branch did not exist the call
\* created it, with the path of a worktree track as start directory, or, for a
\* devbox track, sent the ssh command of the devbox to it, before the switch or
\* the attach.
C25_JumpTouchesAndSeeds ==
    LET P == proc[MainProc]
        name == SanitizeForTmux(P.branch)
        created == FirstOk(P.log, "tmux.CreateWindow")
        sent == FirstOk(P.log, "tmux.RunInWindow")
        switched == IF tmux.inside THEN FirstOk(P.log, "tmux.SwitchToWindow")
                    ELSE FirstOk(P.log, "tmux.AttachSession")
    IN  (P.op \in {"JumpToTrack", "RunAI"} /\ P.pc = "done" /\ P.err = NoErr) =>
          /\ \A r \in RowsOf(tracks, ConfigRemote, P.branch) : r.last_accessed = Some(P.time0)
          /\ RowsOf(tracks, ConfigRemote, P.branch) # {}
          /\ (~P.tmux0.session \/ WindowsNamed(P.tmux0, name) = {}) =>
                /\ 0 < created /\ created < switched
                /\ P.trk[1].type = TrackTypeWorktree =>
                        /\ P.log[created].arg = P.trk[1].path[1]
                        /\ \E i \in WindowsNamed(tmux, name) : tmux.windows[i].dir = P.trk[1].path[1]
                /\ P.trk[1].type = TrackTypeDevbox =>
                        /\ created < sent /\ sent < switched
                        /\ P.log[sent].arg = <<"ssh", P.trk[1].devbox_name[1]>>

\* C26: a RunAI of a branch whose track is a devbox track makes no call but the
\* read of the track, changes neither the registry nor the multiplexer, and returns
\* the error "AI assistant is not supported for devbox tracks" when it has read
\* the track.
C26_RunAIDevboxUnsupported ==
    LET P == proc[MainProc]
        trk == DB_GetTrack(P.rows0, ConfigRemote, P.branch)
    IN  (P.op = "RunAI" /\ trk # None /\ trk[1].type = TrackTypeDevbox) =>
          /\ \A i \in DOMAIN P.log : P.log[i].call = "db.GetTrack"
          /\ tracks = P.rows0
          /\ tmux = P.tmux0
          /\ (P.pc # "get") => P.pc = "done" /\ P.err # NoErr
          /\ HasCall(P.log, "db.GetTrack", TRUE)
                => P.err = Err("AI assistant is not supported for devbox tracks", {})

\* RunAI of a devbox track returned the error
C26_Witness ==
    /\ proc[MainProc].op = "RunAI"
    /\ proc[MainProc].pc = "done"
    /\ proc[MainProc].trk # None
    /\ proc[MainProc].trk[1].type = TrackTypeDevbox
    /\ proc[MainProc].err.msg = "AI assistant is not supported for devbox tracks"
    /\ \E r \in tracks : r.branch = proc[MainProc].branch /\ r.last_accessed = Some(0)

\* C27: DeleteTrack, SyncTrack, JumpToTrack and RunAI of a branch that has no track
\* make no call but the read of the track, leave the registry and the multiplexer
\* as they were, and return an error as soon as the read has returned.
C27_NotTrackedReturnsAtOnce ==
    LET P == proc[MainProc]
    IN  (/\ P.op \in {"DeleteTrack", "SyncTrack", "JumpToTrack", "RunAI"}
         /\ RowsOf(P.rows0, ConfigRemote, P.branch) = {}) =>
          /\ \A i \in DOMAIN P.log : P.log[i].call = "db.GetTrack"
          /\ Len(P.log) <= 1
          /\ tracks = P.rows0
          /\ P.op \in {"JumpToTrack", "RunAI"} => tmux = P.tmux0
          /\ Len(P.log) = 1 => P.pc = "done" /\ P.err # NoErr
          /\ HasCall(P.log, "db.GetTrack", TRUE)
                => P.err = Err("track not found for branch", {})

\* JumpToTrack returned "track not found" for a branch without track, while the
\* registry has the track of another branch
C27_Witness ==
    /\ proc[MainProc].op = "JumpToTrack"
    /\ proc[MainProc].pc = "done"
    /\ proc[MainProc].err = Err("track not found for branch", {})
    /\ tracks # {}


\* the rows the registry held for the branch of p's call when the call began
RowsAtCall(p) == RowsOf(proc[p].rows0, ConfigRemote, proc[p].branch)

\* C28 as stated: no step of a NewTrackWorktree or NewTrackDevbox call for a branch
\* that had a track when the call began changes the registry, creates a worktree or
\* a devbox, or removes the environment of the existing track, and the call returns
\* an error.
C28_AlreadyTrackedBeforeProvision ==
    [][\A p \in Procs :
        proc[p].op \in NewTrackOps /\ proc[p].pc # "done" /\ RowsAtCall(p) # {} =>
            /\ tracks' = tracks
            /\ worktrees' \subseteq worktrees
            /\ devboxes' \subseteq devboxes
            /\ \A r \in RowsAtCall(p) :
                EnvExistsIn(worktrees, devboxes, r) => EnvExistsIn(worktrees', devboxes', r)
            /\ proc'[p].pc = "done" => proc'[p].err # NoErr]_vars


\* the kind a NewTrack function makes, and the locator of a row for its kind
KindOf(op) == IF op = "NewTrackWorktree" THEN TrackTypeWorktree ELSE TrackTypeDevbox
LocatorOf(r) == IF r.type = TrackTypeWorktree THEN r.path ELSE r.devbox_name

\* C29 as stated: when a NewTrackWorktree or NewTrackDevbox call for a branch that
\* was never tracked has returned nil, GetTrack of the branch returns a row of the
\* requested kind whose path or devbox name, according to the kind, is a non-empty
\* string.
C29_CreatedTrackHasLocator ==
    \A p \in Procs :
        /\ proc[p].pc = "done"
        /\ proc[p].op \in NewTrackOps
        /\ proc[p].err = NoErr
        /\ RowsAtCall(p) = {}
        => LET got == DB_GetTrack(tracks, ConfigRemote, proc[p].branch)
           IN  /\ got # None
               /\ got[1].type = KindOf(proc[p].op)
               /\ LocatorOf(got[1]) # None
               /\ LocatorOf(got[1])[1] # <<>>


\* C30 as stated: every row of the registry has the locator of its kind and no
\* other: a worktree row a non-empty path and no devbox name, a devbox row a
\* non-empty devbox name and no path.
C30_RowsCarryOwnLocator ==
    \A r \in tracks :
        /\ r.type = TrackTypeWorktree =>
            r.path # None /\ r.path # Some(<<>>) /\ r.devbox_name = None
        /\ r.type = TrackTypeDevbox =>
            r.devbox_name # None /\ r.devbox_name # Some(<<>>) /\ r.path = None


C33_CreatePROnlyWhenAbsent ==
    LET P == proc[MainProc]
        creates == {i \in DOMAIN P.log : P.log[i].call = "github.CreatePR"}
    IN  P.op = "SyncTrack" =>
          /\ Cardinality(creates) <= 1
          /\ \A i \in creates :
                i > 1 /\ P.log[i - 1] = Called("github.GetPRForBranch", P.branch, TRUE)
          /\ P.pc = "sync_create" => prs[P.branch] = NoPR
          /\ P.pc = "done" /\ P.result # None =>
                /\ P.result[1].PRCreated <=> HasCall(P.log, "github.CreatePR", TRUE)
                /\ P.result[1].PRCreated =>
                      P.result[1].PRNumber = prs[P.branch] /\ prs[P.branch] # NoPR
                /\ ~P.result[1].PRCreated => P.result[1].PRNumber = 0

\* a SyncTrack that found the pull request of an earlier SyncTrack and made none
C33_Witness ==
    /\ proc[MainProc].op = "SyncTrack"
    /\ proc[MainProc].pc = "done"
    /\ proc[MainProc].err = NoErr
    /\ SyncDid("github.GetPRForBranch")
    /\ prs[proc[MainProc].branch] # NoPR
    /\ ~Made(proc[MainProc].log, "github.CreatePR")
    /\ ~proc[MainProc].result[1].PRCreated


\* the tip NewTrackWorktree's branch resolution gives a branch that is not local:
\* the remote copy when origin has the branch, else the default branch's tip
ResolvedTip(b) == IF originBranch[b] # NoSHA THEN originBranch[b] ELSE DefaultTip

\* C34 as stated: a NewTrackWorktree that returned nil created the local branch
\* once or not at all; a branch it created is at the tip of origin's copy when
\* origin has the branch and at the default branch's tip otherwise; and the head_sha
\* of the track is the tip of the local branch.
C34_BranchResolution ==
    LET P == proc[MainProc]
    IN  P.op = "NewTrackWorktree" /\ P.pc = "done" /\ P.err = NoErr =>
          /\ Len(CallsOf(P.log, "git.CreateBranch")) <= 1
          /\ HasCall(P.log, "git.CreateBranch", TRUE) =>
                localBranch[P.branch] = ResolvedTip(P.branch)
          /\ DB_GetTrack(tracks, ConfigRemote, P.branch) # None
          /\ DB_GetTrack(tracks, ConfigRemote, P.branch)[1].head_sha = localBranch[P.branch]

C37_SyncWritesOnlyHeadSHA ==
    LET P == proc[MainProc]
    IN  P.op = "SyncTrack" /\ P.pc = "done" =>
          /\ P.err # NoErr => tracks = P.rows0
          /\ {r.id : r \in tracks} = {r.id : r \in P.rows0}
          /\ \A r \in tracks : \E r0 \in P.rows0 :
                /\ r = [r0 EXCEPT !.head_sha = r.head_sha]
                /\ r # r0 => r.remote_url = ConfigRemote /\ r.branch = P.branch

\* a SyncTrack returned "failed to push" after a rebase that moved the branch,
\* while the registry held a row of the same branch on the other remote
C37_Witness ==
    /\ proc[MainProc].op = "SyncTrack"
    /\ proc[MainProc].pc = "done"
    /\ proc[MainProc].err.msg = "failed to push"
    /\ SyncDid("git.Rebase")
    /\ localBranch[proc[MainProc].branch] # SyncedRow.head_sha
    /\ \E r \in tracks : r.remote_url # ConfigRemote /\ r.branch = proc[MainProc].branch


\* C38 as stated: when a RefreshTrackStatus reported a mismatch and its
\* UpdateHeadSHA succeeded, a second RefreshTrackStatus of the track as the
\* registry has it then, with HEAD where it was, reports no mismatch.
C38_DriftReportedOnce ==
    (/\ proc[MainProc].op = "RefreshTrackStatus"
     /\ proc[MainProc].pc = "done"
     /\ proc[MainProc].result[1].SHAMismatch
     /\ HasCall(proc[MainProc].log, "db.UpdateHeadSHA", TRUE)
     /\ proc[Refresher].op = "RefreshTrackStatus"
     /\ proc[Refresher].pc = "done")
        => ~proc[Refresher].result[1].SHAMismatch

\* C40 as stated: a NewTrackWorktree call that returns an error leaves no local
\* branch behind that it created itself at the branch-resolution step.
C40_FailedCreateLeavesNoBranch ==
    (/\ proc[MainProc].op = "NewTrackWorktree"
     /\ proc[MainProc].pc = "done"
     /\ proc[MainProc].err # NoErr
     /\ HasCall(proc[MainProc].log, "git.CreateBranch", TRUE))
        => localBranch[proc[MainProc].branch] = NoSHA

\* C39 as stated: after a successful JumpToTrack of a worktree track the client
\* is in a window whose start directory is the path of that track, also when
\* another tracked branch has the same window name.
C39_JumpLandsInOwnWindow ==
    (/\ proc[MainProc].op = "JumpToTrack"
     /\ proc[MainProc].pc = "done"
     /\ proc[MainProc].err = NoErr
     /\ proc[MainProc].trk[1].type = TrackTypeWorktree
     /\ proc[MainProc].trk[1].path # None)
        => /\ tmux.client \in DOMAIN tmux.windows
           /\ tmux.windows[tmux.client].dir = proc[MainProc].trk[1].path[1]

\* the commands running that call a mutating engine operation
MutatingInFlight ==
    {i \in DOMAIN ui.running :
        ui.running[i].name \in {"createTrackFromRemote", "deleteTrack", "syncTrack"}}

\* C31 as stated: the front end has at most one mutating engine operation (create,
\* delete, sync) in flight at any time.
C31_OneMutatingInFlight == Cardinality(MutatingInFlight) <= 1
====
